---- MODULE Spec2Model ----
(***************************************************************************)
(* Kirana Copilot: the agent tool layer (lib/tools.ts) over the relational *)
(* store (lib/db/schema.ts).  Every tool handler is a sequence of database *)
(* statements; each statement is atomic, and statements of handlers that   *)
(* run in different turns interleave freely.  One action of this module is *)
(* one database statement of one handler, together with the handler code   *)
(* that runs up to the next statement (or up to the return).               *)
(***************************************************************************)
EXTENDS Integers, Sequences, FiniteSets, TLC

VARIABLES
  items,          \* table items: sequence of rows, the serial id is the index
  transactions,   \* table transactions: set of rows
  txnSeq,         \* last value of the serial sequence transactions.id
  ledgerParties,  \* table ledger_parties: sequence of rows, id is the index
  ledgerEntries,  \* table ledger_entries: set of rows
  entrySeq,       \* last value of the serial sequence ledger_entries.id
  calls,          \* the tool calls in flight or returned, one per slot
  started,        \* number of tool calls started so far
  undone,         \* history: ids undo_action has reported ACTION_UNDONE for
  stores,         \* table stores: sequence of rows, the serial id is the index
  session,        \* the bot's handling of one chat: turn phase, steps, replies
  processedUpdates, \* the bot's Set of processed keys, in insertion order
  deliveries      \* history: what the deliveries of each message led to

vars == <<items, transactions, txnSeq, ledgerParties, ledgerEntries,
          entrySeq, calls, started, undone, stores, session,
          processedUpdates, deliveries>>

db == <<items, transactions, txnSeq, ledgerParties, ledgerEntries, entrySeq>>

\* what the tool handlers neither read nor write
aux == <<stores, session, processedUpdates, deliveries>>

dedup == <<processedUpdates, deliveries>>

-----------------------------------------------------------------------------
(* Bounds *)

\* tool calls started in one behaviour
MaxCalls == 2

\* lines in one record_sale_batch / add_stock_batch call
MaxLines == 2

\* rows in the array handed to rankItemMatches / rankPartyMatches
MaxRows == 3

(* Program constants *)

\* minStock given to an item that add_stock / add_stock_batch creates
DefaultMinStock == 5

\* candidates add_stock, add_debt and receive_payment ask the ranker for
MatchLimit == 3

\* candidates add_stock_batch and add_item ask the ranker for
TopLimit == 1

Stores == {1, 2}
Slots == {1, 2}

-----------------------------------------------------------------------------
(* Strings are sequences of one-character strings. *)

sAb == <<"A", "b">>
sAc == <<"A", "c">>
sAd == <<"A", "d">>
sa  == <<"a">>
sb  == <<"b">>
s_ab == <<" ", "a", "b">>
sAd_ == <<"A", "d", " ">>
sAbc == <<"A", "b", "c">>
scAb == <<"c", "A", "b">>

LowerChar(c) == IF c = "A" THEN "a" ELSE c

toLowerCase(s) == [i \in 1..Len(s) |-> LowerChar(s[i])]

RECURSIVE trimStart(_)
trimStart(s) ==
  IF s # <<>> /\ Head(s) = " " THEN trimStart(Tail(s)) ELSE s

RECURSIVE trimEnd(_)
trimEnd(s) ==
  IF s # <<>> /\ s[Len(s)] = " " THEN trimEnd(SubSeq(s, 1, Len(s) - 1)) ELSE s

trim(s) == trimEnd(trimStart(s))

startsWith(s, p) == Len(p) <= Len(s) /\ SubSeq(s, 1, Len(p)) = p

includes(s, p) ==
  \E i \in 0..(Len(s) - Len(p)) : SubSeq(s, i + 1, i + Len(p)) = p

-----------------------------------------------------------------------------
(* Ranked matching helpers *)

\* itemScore with the exact-alias tier below the name-prefix tier
itemScoreAliasLow(item, q) ==
  LET nameLower == toLowerCase(item.name)
      aliases == item.aliases
  IN  IF nameLower = q THEN 100
      ELSE IF \E k \in DOMAIN aliases : toLowerCase(aliases[k]) = q THEN 50
      ELSE IF startsWith(nameLower, q) THEN 70
      ELSE IF \E k \in DOMAIN aliases : startsWith(toLowerCase(aliases[k]), q)
      THEN 60
      ELSE IF includes(nameLower, q) THEN 40
      ELSE IF \E k \in DOMAIN aliases : includes(toLowerCase(aliases[k]), q)
      THEN 30
      ELSE 0

itemScore(item, q) ==
  LET nameLower == toLowerCase(item.name)
      aliases == item.aliases
  IN  IF nameLower = q THEN 100
      ELSE IF \E k \in DOMAIN aliases : toLowerCase(aliases[k]) = q THEN 90
      ELSE IF startsWith(nameLower, q) THEN 70
      ELSE IF \E k \in DOMAIN aliases : startsWith(toLowerCase(aliases[k]), q)
      THEN 60
      ELSE IF includes(nameLower, q) THEN 40
      ELSE IF \E k \in DOMAIN aliases : includes(toLowerCase(aliases[k]), q)
      THEN 30
      ELSE 0

partyScore(party, q) ==
  LET nameLower == toLowerCase(party.name)
  IN  IF nameLower = q THEN 100
      ELSE IF startsWith(nameLower, q) THEN 70
      ELSE IF startsWith(q, nameLower) THEN 50
      ELSE IF includes(nameLower, q) THEN 40
      ELSE IF includes(q, nameLower) THEN 20
      ELSE 0

\* take without the truncation
takeAll(s, n) == s

take(s, n) == SubSeq(s, 1, IF Len(s) < n THEN Len(s) ELSE n)

\* sortByScore that leaves the array in catalog order
sortByScoreUnsorted(scored) == SelectSeq(scored, LAMBDA x : x.score > 0)

\* scored.sort((a, b) => b.score - a.score): a stable sort, descending; the
\* rows that scored nothing were never pushed
sortByScore(scored) ==
     SelectSeq(scored, LAMBDA x : x.score = 100)
  \o SelectSeq(scored, LAMBDA x : x.score = 90)
  \o SelectSeq(scored, LAMBDA x : x.score = 70)
  \o SelectSeq(scored, LAMBDA x : x.score = 60)
  \o SelectSeq(scored, LAMBDA x : x.score = 50)
  \o SelectSeq(scored, LAMBDA x : x.score = 40)
  \o SelectSeq(scored, LAMBDA x : x.score = 30)
  \o SelectSeq(scored, LAMBDA x : x.score = 20)

rankItemMatches(allItems, query, limit) ==
  LET q == trim(toLowerCase(query))
      scored == [k \in DOMAIN allItems |->
                   [row |-> allItems[k], score |-> itemScore(allItems[k], q)]]
      top == take(sortByScore(scored), limit)
  IN  [k \in DOMAIN top |-> top[k].row]

rankPartyMatches(allParties, query, limit) ==
  LET q == trim(toLowerCase(query))
      scored == [k \in DOMAIN allParties |->
                   [row |-> allParties[k], score |-> partyScore(allParties[k], q)]]
      top == take(sortByScore(scored), limit)
  IN  [k \in DOMAIN top |-> top[k].row]

-----------------------------------------------------------------------------
(* Rows and queries *)

NoRow == [id |-> 0]

\* every order in which a SELECT without ORDER BY may return the rows of S
Orderings(S) ==
  {f \in [1..Cardinality(S) -> S] : \A i, j \in DOMAIN f : i # j => f[i] # f[j]}

\* db.select().from(items).where(eq(items.storeId, storeId))
storeItems(tbl, storeId) == {tbl[i] : i \in {k \in DOMAIN tbl : tbl[k].storeId = storeId}}

\* db.select().from(ledgerParties).where(eq(ledgerParties.storeId, storeId))
storeParties(tbl, storeId) == {tbl[i] : i \in {k \in DOMAIN tbl : tbl[k].storeId = storeId}}

\* findItem without the storeId predicate
findItemAnyStore(tbl, item_id, storeId) ==
  IF item_id \in DOMAIN tbl THEN tbl[item_id] ELSE NoRow

\* .where(and(eq(items.id, item_id), eq(items.storeId, storeId))).limit(1)
findItem(tbl, item_id, storeId) ==
  IF item_id \in DOMAIN tbl /\ tbl[item_id].storeId = storeId
  THEN tbl[item_id] ELSE NoRow

\* findTxn without the storeId predicate
findTxnAnyStore(tbl, id, storeId) ==
  IF \E t \in tbl : t.id = id THEN CHOOSE t \in tbl : t.id = id ELSE NoRow

\* .where(and(eq(transactions.id, id), eq(transactions.storeId, storeId)))
findTxn(tbl, id, storeId) ==
  IF \E t \in tbl : t.id = id /\ t.storeId = storeId
  THEN CHOOSE t \in tbl : t.id = id /\ t.storeId = storeId ELSE NoRow

\* .from(ledgerEntries).where(eq(ledgerEntries.id, action_id)).limit(1)
findEntry(tbl, id) ==
  IF \E e \in tbl : e.id = id THEN CHOOSE e \in tbl : e.id = id ELSE NoRow

\* findParty without the storeId predicate
findPartyAnyStore(tbl, id, storeId) == IF id \in DOMAIN tbl THEN tbl[id] ELSE NoRow

\* .where(and(eq(ledgerParties.id, id), eq(ledgerParties.storeId, storeId)))
findParty(tbl, id, storeId) ==
  IF id \in DOMAIN tbl /\ tbl[id].storeId = storeId THEN tbl[id] ELSE NoRow

RECURSIVE sumDelta(_)
sumDelta(S) ==
  IF S = {} THEN 0
  ELSE LET e == CHOOSE x \in S : TRUE IN e.deltaAmount + sumDelta(S \ {e})

\* balanceOf without the party predicate
balanceOfAll(tbl, partyId) == sumDelta(tbl)

\* COALESCE(SUM(delta_amount::numeric), 0) ... WHERE party_id = id
balanceOf(tbl, partyId) == sumDelta({e \in tbl : e.partyId = partyId})

\* topName === queryLower || topAliases.some(a => a.toLowerCase() === queryLower)
isExactItem(item, query) ==
  LET queryLower == trim(toLowerCase(query))
  IN  \/ toLowerCase(item.name) = queryLower
      \/ \E k \in DOMAIN item.aliases : toLowerCase(item.aliases[k]) = queryLower

\* matches[0].name.toLowerCase() === party_name.toLowerCase().trim()
isExactParty(party, query) == toLowerCase(party.name) = trim(toLowerCase(query))

\* newItem that starts the item with one unit in stock
newItemStocked(tbl, storeId, name, aliases, minStock) ==
  [id |-> Len(tbl) + 1, storeId |-> storeId, name |-> trim(name),
   aliases |-> aliases, currentStock |-> 1, minStock |-> minStock]

newItem(tbl, storeId, name, aliases, minStock) ==
  [id |-> Len(tbl) + 1, storeId |-> storeId, name |-> trim(name),
   aliases |-> aliases, currentStock |-> 0, minStock |-> minStock]

newTxn(seq, storeId, type, itemId, qty) ==
  [id |-> seq + 1, storeId |-> storeId, type |-> type, itemId |-> itemId,
   qty |-> qty]

\* newParty keeping the name as typed
newPartyUntrimmed(tbl, storeId, name) ==
  [id |-> Len(tbl) + 1, storeId |-> storeId, name |-> name]

newParty(tbl, storeId, name) ==
  [id |-> Len(tbl) + 1, storeId |-> storeId, name |-> trim(name)]

newEntry(seq, partyId, delta) ==
  [id |-> seq + 1, partyId |-> partyId, deltaAmount |-> delta]

-----------------------------------------------------------------------------
(* The handling of one chat by the bot: no message is being processed *)

IdleSession ==
  [phase |-> "Idle", steps |-> 0, text |-> "", storeId |-> 0, thrown |-> FALSE,
   toolRounds |-> 0, failedRounds |-> 0, replies |-> <<>>, turns |-> 0]

ChatIds == {1, 2}

MessageIds == {1, 2}

\* `${chatId}:${messageId}`
Keys == ChatIds \X MessageIds

\* no message has been delivered: recent is the keys the guard let through,
\* the latest last, as far back as the guard is meant to remember; invoked
\* counts the processMessage invocations of each key; phase is where the
\* latest delivery of the key that passed the guard stands; last is the
\* latest delivery and whether the guard dropped it
NoDeliveries ==
  [recent |-> <<>>, invoked |-> [k \in Keys |-> 0],
   phase |-> [k \in Keys |-> "none"], last |-> <<0, 0>>, dropped |-> FALSE]

-----------------------------------------------------------------------------
(* Tool responses and calls *)

NoRes ==
  [ok |-> FALSE, code |-> "NONE", message |-> "NONE", newStock |-> 0,
   currentStock |-> 0, newBalance |-> 0, warning |-> FALSE, rowId |-> 0,
   created |-> FALSE, recorded |-> 0, failed |-> 0, candidates |-> <<>>]

success(code) == [NoRes EXCEPT !.ok = TRUE, !.code = code, !.message = code]

fail(code) == [NoRes EXCEPT !.ok = FALSE, !.code = code, !.message = code]

NoSnap == <<<<>>, {}, 0, <<>>, {}, 0>>

IdleCall ==
  [cid |-> 0, tool |-> "none", store |-> 1, pc |-> "idle", item_id |-> 0,
   name |-> <<>>, qty |-> 0, lines |-> <<>>, idx |-> 0,
   action_type |-> "none", row |-> NoRow, row2 |-> NoRow, created |-> FALSE,
   recorded |-> 0, failed |-> 0, createdN |-> 0, res |-> NoRes,
   aliases |-> <<>>, pre |-> NoSnap, peer |-> 0, fresh |-> FALSE,
   afterUndo |-> FALSE, frac |-> FALSE]

\* a quantity is held as its integer part (qty) and whether one half follows
\* it (frac); what an integer column stores of it when the statement is not
\* rejected is the numeric value rounded half away from zero
stored(qty, frac) == IF frac THEN qty + 1 ELSE qty

quiet(c) == c.pc \in {"idle", "done"}

\* the handler goes on to its next statement
goto(s, c, pc) == calls' = [calls EXCEPT ![s] = [c EXCEPT !.pc = pc, !.fresh = FALSE]]

\* the handler returns r
return(s, c, r) ==
  calls' = [calls EXCEPT ![s] = [c EXCEPT !.pc = "done", !.res = r, !.fresh = FALSE]]

-----------------------------------------------------------------------------
(* record_sale *)

\* saleGuard without its stock predicate (the stock checked by an earlier read)
saleGuardNoStock(tbl, item_id, storeId, qty) ==
  item_id \in DOMAIN tbl /\ tbl[item_id].storeId = storeId

\* UPDATE items SET current_stock = current_stock - qty
\*  WHERE id = item_id AND store_id = storeId AND current_stock >= qty
saleGuard(tbl, item_id, storeId, qty) ==
  /\ item_id \in DOMAIN tbl
  /\ tbl[item_id].storeId = storeId
  /\ tbl[item_id].currentStock >= qty

record_sale_update(s) ==
  LET c == calls[s] IN
  /\ c.tool = "record_sale" /\ c.pc = "update"
  /\ IF saleGuard(items, c.item_id, c.store, c.qty)
     THEN /\ items' = [items EXCEPT ![c.item_id].currentStock = @ - c.qty]
          /\ goto(s, [c EXCEPT !.row = items'[c.item_id]], "insert")
     ELSE /\ items' = items
          /\ goto(s, c, "check")
  /\ UNCHANGED <<aux, transactions, txnSeq, ledgerParties, ledgerEntries, entrySeq,
                 started, undone>>

record_sale_check(s) ==
  LET c == calls[s]
      item == findItem(items, c.item_id, c.store)
  IN
  /\ c.tool = "record_sale" /\ c.pc = "check"
  /\ IF item = NoRow
     THEN return(s, c, fail("ITEM_NOT_FOUND"))
     ELSE return(s, c, [fail("INSUFFICIENT_STOCK") EXCEPT
                          !.currentStock = item.currentStock])
  /\ UNCHANGED <<aux, db, started, undone>>

record_sale_insert(s) ==
  LET c == calls[s] IN
  /\ c.tool = "record_sale" /\ c.pc = "insert"
  /\ transactions' = transactions \cup
                       {newTxn(txnSeq, c.store, "SALE", c.item_id, c.qty)}
  /\ txnSeq' = txnSeq + 1
  /\ return(s, c, [success("SALE_RECORDED") EXCEPT
                     !.newStock = c.row.currentStock,
                     !.warning = (c.row.currentStock <= c.row.minStock)])
  /\ UNCHANGED <<aux, items, ledgerParties, ledgerEntries, entrySeq, started, undone>>

-----------------------------------------------------------------------------
(* record_sale_batch *)

\* batchNext that fails the whole batch when one line failed
batchNextAllOrNothing(s, c, code_ok, code_fail) ==
  IF c.idx < Len(c.lines)
  THEN goto(s, [c EXCEPT !.idx = @ + 1], "line")
  ELSE return(s, c, IF c.recorded > 0 /\ c.failed = 0
                    THEN [success(code_ok) EXCEPT
                            !.recorded = c.recorded, !.failed = c.failed,
                            !.created = (c.createdN > 0)]
                    ELSE fail(code_fail))

\* end of one iteration of the for loop; after the last line, the return:
\* the counts are in the data of the success envelope only
batchNext(s, c, code_ok, code_fail) ==
  IF c.idx < Len(c.lines)
  THEN goto(s, [c EXCEPT !.idx = @ + 1], "line")
  ELSE return(s, c, IF c.recorded > 0
                    THEN [success(code_ok) EXCEPT
                            !.recorded = c.recorded, !.failed = c.failed,
                            !.created = (c.createdN > 0)]
                    ELSE fail(code_fail))

record_sale_batch_update(s) ==
  LET c == calls[s]
      entry == c.lines[c.idx]
  IN
  /\ c.tool = "record_sale_batch" /\ c.pc = "line"
  /\ IF saleGuard(items, entry.item_id, c.store, entry.qty)
     THEN /\ items' = [items EXCEPT ![entry.item_id].currentStock = @ - entry.qty]
          /\ goto(s, [c EXCEPT !.row = items'[entry.item_id]], "insert")
     ELSE /\ items' = items
          /\ goto(s, c, "check")
  /\ UNCHANGED <<aux, transactions, txnSeq, ledgerParties, ledgerEntries, entrySeq,
                 started, undone>>

record_sale_batch_check(s) ==
  LET c == calls[s] IN
  /\ c.tool = "record_sale_batch" /\ c.pc = "check"
  /\ batchNext(s, [c EXCEPT !.failed = @ + 1], "SALE_RECORDED", "SALE_FAILED")
  /\ UNCHANGED <<aux, db, started, undone>>

record_sale_batch_insert(s) ==
  LET c == calls[s]
      entry == c.lines[c.idx]
  IN
  /\ c.tool = "record_sale_batch" /\ c.pc = "insert"
  /\ transactions' = transactions \cup
                       {newTxn(txnSeq, c.store, "SALE", entry.item_id, entry.qty)}
  /\ txnSeq' = txnSeq + 1
  /\ batchNext(s, [c EXCEPT !.recorded = @ + 1], "SALE_RECORDED", "SALE_FAILED")
  /\ UNCHANGED <<aux, items, ledgerParties, ledgerEntries, entrySeq, started, undone>>

-----------------------------------------------------------------------------
(* add_stock *)

add_stock_find(s) ==
  LET c == calls[s]
      found == findItem(items, c.item_id, c.store)
  IN
  /\ c.tool = "add_stock" /\ c.pc = "find"
  /\ IF found # NoRow
     THEN goto(s, [c EXCEPT !.row = found], "increment")
     ELSE goto(s, c, "match")
  /\ UNCHANGED <<aux, db, started, undone>>

\* add_stock_gate that takes the best match whatever it is
add_stock_gateTop(matches, name) == IF Len(matches) >= 1 THEN "top" ELSE "none"

\* the disambiguation gate of add_stock over the ranked matches
add_stock_gate(matches, name) ==
  IF Len(matches) > 1
  THEN IF isExactItem(matches[1], name) THEN "top" ELSE "ambiguous"
  ELSE IF Len(matches) = 1 THEN "top" ELSE "none"

add_stock_match(s) ==
  LET c == calls[s] IN
  /\ c.tool = "add_stock" /\ c.pc = "match"
  /\ \E allItems \in Orderings(storeItems(items, c.store)) :
       LET matches == rankItemMatches(allItems, c.name, MatchLimit)
           gate == add_stock_gate(matches, c.name)
       IN  CASE gate = "ambiguous" ->
                  return(s, c, [fail("AMBIGUOUS_MATCH") EXCEPT
                     !.candidates = [k \in DOMAIN matches |-> matches[k].id]])
             [] gate = "top" -> goto(s, [c EXCEPT !.row = matches[1]], "increment")
             [] OTHER -> goto(s, c, "create")
  /\ UNCHANGED <<aux, db, started, undone>>

add_stock_create(s) ==
  LET c == calls[s]
      row == newItem(items, c.store, c.name, <<>>, DefaultMinStock)
  IN
  /\ c.tool = "add_stock" /\ c.pc = "create"
  /\ items' = Append(items, row)
  /\ goto(s, [c EXCEPT !.row = row, !.created = TRUE], "increment")
  /\ UNCHANGED <<aux, transactions, txnSeq, ledgerParties, ledgerEntries, entrySeq,
                 started, undone>>

\* UPDATE items SET current_stock = current_stock + qty WHERE id = item.id
\* (row2 remembers the row as this statement left it; the handler does not)
add_stock_increment(s) ==
  LET c == calls[s] IN
  /\ c.tool = "add_stock" /\ c.pc = "increment"
  /\ items' = [items EXCEPT ![c.row.id].currentStock = @ + stored(c.qty, c.frac)]
  /\ goto(s, [c EXCEPT !.row2 = items'[c.row.id]], "log")
  /\ UNCHANGED <<aux, transactions, txnSeq, ledgerParties, ledgerEntries, entrySeq,
                 started, undone>>

add_stock_log(s) ==
  LET c == calls[s] IN
  /\ c.tool = "add_stock" /\ c.pc = "log"
  /\ transactions' = transactions \cup
                       {newTxn(txnSeq, c.store, "STOCK_IN", c.row.id,
                               stored(c.qty, c.frac))}
  /\ txnSeq' = txnSeq + 1
  /\ return(s, c, [success(IF c.created THEN "ITEM_CREATED_AND_STOCKED"
                                         ELSE "STOCK_ADDED") EXCEPT
                     !.newStock = c.row.currentStock + c.qty,
                     !.rowId = c.row.id, !.created = c.created])
  /\ UNCHANGED <<aux, items, ledgerParties, ledgerEntries, entrySeq, started, undone>>

-----------------------------------------------------------------------------
(* add_stock_batch *)

add_stock_batch_match(s) ==
  LET c == calls[s]
      entry == c.lines[c.idx]
  IN
  /\ c.tool = "add_stock_batch" /\ c.pc = "line"
  /\ \E allItems \in Orderings(storeItems(items, c.store)) :
       LET matches == rankItemMatches(allItems, entry.name, TopLimit)
       IN  IF matches # <<>>
           THEN goto(s, [c EXCEPT !.row = matches[1]], "increment")
           ELSE goto(s, c, "create")
  /\ UNCHANGED <<aux, db, started, undone>>

add_stock_batch_create(s) ==
  LET c == calls[s]
      entry == c.lines[c.idx]
      row == newItem(items, c.store, entry.name, <<>>, DefaultMinStock)
  IN
  /\ c.tool = "add_stock_batch" /\ c.pc = "create"
  /\ items' = Append(items, row)
  /\ goto(s, [c EXCEPT !.row = row, !.createdN = @ + 1], "increment")
  /\ UNCHANGED <<aux, transactions, txnSeq, ledgerParties, ledgerEntries, entrySeq,
                 started, undone>>

add_stock_batch_increment(s) ==
  LET c == calls[s]
      entry == c.lines[c.idx]
  IN
  /\ c.tool = "add_stock_batch" /\ c.pc = "increment"
  /\ items' = [items EXCEPT ![c.row.id].currentStock =
                                 @ + stored(entry.qty, entry.frac)]
  /\ goto(s, c, "log")
  /\ UNCHANGED <<aux, transactions, txnSeq, ledgerParties, ledgerEntries, entrySeq,
                 started, undone>>

add_stock_batch_log(s) ==
  LET c == calls[s]
      entry == c.lines[c.idx]
  IN
  /\ c.tool = "add_stock_batch" /\ c.pc = "log"
  /\ transactions' = transactions \cup
                       {newTxn(txnSeq, c.store, "STOCK_IN", c.row.id,
                               stored(entry.qty, entry.frac))}
  /\ txnSeq' = txnSeq + 1
  /\ batchNext(s, [c EXCEPT !.recorded = @ + 1], "STOCK_ADDED", "STOCK_ADDED")
  /\ UNCHANGED <<aux, items, ledgerParties, ledgerEntries, entrySeq, started, undone>>

-----------------------------------------------------------------------------
(* adjust_stock *)

adjust_stock_find(s) ==
  LET c == calls[s]
      item == findItem(items, c.item_id, c.store)
  IN
  /\ c.tool = "adjust_stock" /\ c.pc = "find"
  /\ IF c.qty = 0 THEN return(s, c, fail("INVALID_INPUT"))
     ELSE IF item = NoRow THEN return(s, c, fail("ITEM_NOT_FOUND"))
     ELSE goto(s, [c EXCEPT !.row = item], "update")
  /\ UNCHANGED <<aux, db, started, undone>>

\* adjustGuard without its stock predicate (the stock checked by the read)
adjustGuardNoStock(tbl, item_id, qty) == item_id \in DOMAIN tbl

\* .where(and(eq(items.id, item_id), gte(items.currentStock, Math.abs(qty))))
adjustGuard(tbl, item_id, qty) ==
  item_id \in DOMAIN tbl /\ tbl[item_id].currentStock >= -qty

adjust_stock_update(s) ==
  LET c == calls[s] IN
  /\ c.tool = "adjust_stock" /\ c.pc = "update"
  /\ IF c.qty < 0 /\ ~adjustGuard(items, c.item_id, c.qty)
     THEN /\ items' = items
          /\ return(s, c, [fail("INSUFFICIENT_STOCK") EXCEPT
                             !.currentStock = c.row.currentStock])
     ELSE /\ items' = [items EXCEPT ![c.item_id].currentStock = @ + c.qty]
          /\ goto(s, c, "insert")
  /\ UNCHANGED <<aux, transactions, txnSeq, ledgerParties, ledgerEntries, entrySeq,
                 started, undone>>

adjust_stock_insert(s) ==
  LET c == calls[s] IN
  /\ c.tool = "adjust_stock" /\ c.pc = "insert"
  /\ transactions' = transactions \cup
                       {newTxn(txnSeq, c.store, "ADJUST", c.item_id, c.qty)}
  /\ txnSeq' = txnSeq + 1
  /\ return(s, c, [success("STOCK_ADJUSTED") EXCEPT !.rowId = c.item_id])
  /\ UNCHANGED <<aux, items, ledgerParties, ledgerEntries, entrySeq, started, undone>>

-----------------------------------------------------------------------------
(* undo_action *)

undo_find_txn(s) ==
  LET c == calls[s]
      txn == findTxn(transactions, c.item_id, c.store)
  IN
  /\ c.tool = "undo_action" /\ c.action_type = "transaction" /\ c.pc = "find"
  /\ IF txn = NoRow
     THEN return(s, c, [fail("NOT_FOUND") EXCEPT !.message = "not found"])
     ELSE goto(s, [c EXCEPT !.row = txn], "reverse")
  /\ UNCHANGED <<aux, db, started, undone>>

\* undoGuard of an unguarded reversal
undoGuardNone(tbl, txn) == TRUE

\* the stock reversal of undo_action; FALSE result: the guarded update
\* of a STOCK_IN matched no row
undoGuard(tbl, txn) ==
  txn.type = "STOCK_IN" => tbl[txn.itemId].currentStock >= txn.qty

\* undoDelta taking the magnitude of an ADJUST instead of its signed qty
undoDeltaAbs(txn) ==
  IF txn.type = "SALE" THEN txn.qty
  ELSE IF txn.qty < 0 THEN txn.qty ELSE 0 - txn.qty

undoDelta(txn) == IF txn.type = "SALE" THEN txn.qty ELSE 0 - txn.qty

undo_reverse(s) ==
  LET c == calls[s]
      txn == c.row
  IN
  /\ c.tool = "undo_action" /\ c.pc = "reverse"
  /\ IF undoGuard(items, txn)
     THEN /\ items' = [items EXCEPT ![txn.itemId].currentStock = @ + undoDelta(txn)]
          /\ goto(s, c, "delete")
     ELSE /\ items' = items
          /\ return(s, c, fail("UNDO_FAILED"))
  /\ UNCHANGED <<aux, transactions, txnSeq, ledgerParties, ledgerEntries, entrySeq,
                 started, undone>>

\* deleteTxn filtering on the wrong column
deleteTxnByItem(tbl, id) == {t \in tbl : t.itemId # id}

\* DELETE FROM transactions WHERE id = action_id
deleteTxn(tbl, id) == {t \in tbl : t.id # id}

undo_delete_txn(s) ==
  LET c == calls[s] IN
  /\ c.tool = "undo_action" /\ c.action_type = "transaction" /\ c.pc = "delete"
  /\ transactions' = deleteTxn(transactions, c.item_id)
  /\ undone' = undone \cup {<<"transaction", c.item_id>>}
  /\ return(s, c, success("ACTION_UNDONE"))
  /\ UNCHANGED <<aux, items, txnSeq, ledgerParties, ledgerEntries, entrySeq, started>>

undo_find_entry(s) ==
  LET c == calls[s]
      entry == findEntry(ledgerEntries, c.item_id)
  IN
  /\ c.tool = "undo_action" /\ c.action_type = "ledger" /\ c.pc = "find"
  /\ IF entry = NoRow
     THEN return(s, c, [fail("NOT_FOUND") EXCEPT !.message = "not found"])
     ELSE goto(s, [c EXCEPT !.row = entry], "party")
  /\ UNCHANGED <<aux, db, started, undone>>

undo_find_party(s) ==
  LET c == calls[s]
      party == findParty(ledgerParties, c.row.partyId, c.store)
  IN
  /\ c.tool = "undo_action" /\ c.pc = "party"
  /\ IF party = NoRow
     THEN return(s, c, [fail("NOT_FOUND") EXCEPT
                          !.message = "doesn't belong to your store"])
     ELSE goto(s, [c EXCEPT !.row2 = party], "delete")
  /\ UNCHANGED <<aux, db, started, undone>>

\* deleteEntry that deletes nothing
deleteEntryNone(tbl, id) == tbl

\* DELETE FROM ledger_entries WHERE id = action_id
deleteEntry(tbl, id) == {e \in tbl : e.id # id}

undo_delete_entry(s) ==
  LET c == calls[s] IN
  /\ c.tool = "undo_action" /\ c.action_type = "ledger" /\ c.pc = "delete"
  /\ ledgerEntries' = deleteEntry(ledgerEntries, c.item_id)
  /\ undone' = undone \cup {<<"ledger", c.item_id>>}
  /\ return(s, c, success("ACTION_UNDONE"))
  /\ UNCHANGED <<aux, items, transactions, txnSeq, ledgerParties, entrySeq, started>>

\* what undo_action('ledger', id) answers when its two reads see the
\* tables E and P
undoLedgerEnvelope(E, P, storeId, id) ==
  LET entry == findEntry(E, id) IN
  IF entry = NoRow
  THEN [fail("NOT_FOUND") EXCEPT !.message = "not found"]
  ELSE IF findParty(P, entry.partyId, storeId) = NoRow
  THEN [fail("NOT_FOUND") EXCEPT !.message = "doesn't belong to your store"]
  ELSE success("ACTION_UNDONE")

-----------------------------------------------------------------------------
(* add_debt, receive_payment, lookup_party *)

\* the disambiguation gate of add_debt and receive_payment
party_gate(matches, party_name) ==
  IF Len(matches) > 1
  THEN IF isExactParty(matches[1], party_name) THEN "top" ELSE "ambiguous"
  ELSE IF Len(matches) = 1 THEN "top" ELSE "none"

add_debt_match(s) ==
  LET c == calls[s] IN
  /\ c.tool = "add_debt" /\ c.pc = "match"
  /\ \E allParties \in Orderings(storeParties(ledgerParties, c.store)) :
       LET matches == rankPartyMatches(allParties, c.name, MatchLimit)
           gate == party_gate(matches, c.name)
       IN  CASE gate = "ambiguous" ->
                  return(s, c, [fail("AMBIGUOUS_MATCH") EXCEPT
                     !.candidates = [k \in DOMAIN matches |-> matches[k].id]])
             [] gate = "top" -> goto(s, [c EXCEPT !.row = matches[1]], "insert")
             [] OTHER -> goto(s, c, "create")
  /\ UNCHANGED <<aux, db, started, undone>>

add_debt_create(s) ==
  LET c == calls[s]
      row == newParty(ledgerParties, c.store, c.name)
  IN
  /\ c.tool = "add_debt" /\ c.pc = "create"
  /\ ledgerParties' = Append(ledgerParties, row)
  /\ goto(s, [c EXCEPT !.row = row, !.created = TRUE], "insert")
  /\ UNCHANGED <<aux, items, transactions, txnSeq, ledgerEntries, entrySeq,
                 started, undone>>

add_debt_insert(s) ==
  LET c == calls[s] IN
  /\ c.tool = "add_debt" /\ c.pc = "insert"
  /\ ledgerEntries' = ledgerEntries \cup {newEntry(entrySeq, c.row.id, c.qty)}
  /\ entrySeq' = entrySeq + 1
  /\ goto(s, c, "balance")
  /\ UNCHANGED <<aux, items, transactions, txnSeq, ledgerParties, started, undone>>

add_debt_balance(s) ==
  LET c == calls[s] IN
  /\ c.tool = "add_debt" /\ c.pc = "balance"
  /\ return(s, c, [success("DEBT_ADDED") EXCEPT
                     !.rowId = c.row.id, !.created = c.created,
                     !.newBalance = balanceOf(ledgerEntries, c.row.id)])
  /\ UNCHANGED <<aux, db, started, undone>>

receive_payment_match(s) ==
  LET c == calls[s] IN
  /\ c.tool = "receive_payment" /\ c.pc = "match"
  /\ \E allParties \in Orderings(storeParties(ledgerParties, c.store)) :
       LET matches == rankPartyMatches(allParties, c.name, MatchLimit)
           gate == party_gate(matches, c.name)
       IN  CASE gate = "none" -> return(s, c, fail("PARTY_NOT_FOUND"))
             [] gate = "ambiguous" ->
                  return(s, c, [fail("AMBIGUOUS_MATCH") EXCEPT
                     !.candidates = [k \in DOMAIN matches |-> matches[k].id]])
             [] OTHER -> goto(s, [c EXCEPT !.row = matches[1]], "insert")
  /\ UNCHANGED <<aux, db, started, undone>>

receive_payment_insert(s) ==
  LET c == calls[s] IN
  /\ c.tool = "receive_payment" /\ c.pc = "insert"
  /\ ledgerEntries' = ledgerEntries \cup {newEntry(entrySeq, c.row.id, 0 - c.qty)}
  /\ entrySeq' = entrySeq + 1
  /\ goto(s, c, "balance")
  /\ UNCHANGED <<aux, items, transactions, txnSeq, ledgerParties, started, undone>>

\* paymentWarning that also warns at a cleared balance
paymentWarningAtZero(numBalance) == numBalance <= 0

\* const warning = numBalance < 0 ? " Warning: ..." : ""
paymentWarning(numBalance) == numBalance < 0

receive_payment_balance(s) ==
  LET c == calls[s]
      numBalance == balanceOf(ledgerEntries, c.row.id)
  IN
  /\ c.tool = "receive_payment" /\ c.pc = "balance"
  /\ return(s, c, [success("PAYMENT_RECEIVED") EXCEPT
                     !.rowId = c.row.id, !.newBalance = numBalance,
                     !.warning = paymentWarning(numBalance)])
  /\ UNCHANGED <<aux, db, started, undone>>

lookup_party_match(s) ==
  LET c == calls[s] IN
  /\ c.tool = "lookup_party" /\ c.pc = "match"
  /\ \E allParties \in Orderings(storeParties(ledgerParties, c.store)) :
       LET matches == rankPartyMatches(allParties, c.name, MatchLimit)
       IN  IF matches = <<>>
           THEN return(s, c, fail("NOT_FOUND"))
           ELSE goto(s, [c EXCEPT !.lines = matches, !.idx = 1], "balance")
  /\ UNCHANGED <<aux, db, started, undone>>

\* one iteration of "for (const party of matches)": the balance of one match
lookup_party_balance(s) ==
  LET c == calls[s]
      party == c.lines[c.idx]
      results == Append(c.res.candidates,
                        [id |-> party.id,
                         balance |-> balanceOf(ledgerEntries, party.id)])
      d == [c EXCEPT !.res.candidates = results]
  IN
  /\ c.tool = "lookup_party" /\ c.pc = "balance"
  /\ IF c.idx < Len(c.lines)
     THEN goto(s, [d EXCEPT !.idx = @ + 1], "balance")
     ELSE return(s, d, [success(IF Len(results) = 1 THEN "FOUND"
                                               ELSE "MULTIPLE_MATCHES") EXCEPT
                          !.candidates = results,
                          !.newBalance = results[1].balance])
  /\ UNCHANGED <<aux, db, started, undone>>

-----------------------------------------------------------------------------
(* add_item, add_item_alias, set_min_stock *)

add_item_check(s) ==
  LET c == calls[s] IN
  /\ c.tool = "add_item" /\ c.pc = "check"
  /\ \E allItems \in Orderings(storeItems(items, c.store)) :
       LET existing == rankItemMatches(allItems, c.name, TopLimit)
       IN  IF existing # <<>> /\
              toLowerCase(existing[1].name) = trim(toLowerCase(c.name))
           THEN return(s, c, [fail("ITEM_EXISTS") EXCEPT !.rowId = existing[1].id])
           ELSE goto(s, c, "insert")
  /\ UNCHANGED <<aux, db, started, undone>>

add_item_insert(s) ==
  LET c == calls[s]
      row == newItem(items, c.store, c.name, c.aliases, c.qty)
  IN
  /\ c.tool = "add_item" /\ c.pc = "insert"
  /\ items' = Append(items, row)
  /\ return(s, c, [success("ITEM_CREATED") EXCEPT !.rowId = row.id])
  /\ UNCHANGED <<aux, transactions, txnSeq, ledgerParties, ledgerEntries, entrySeq,
                 started, undone>>

add_item_alias_find(s) ==
  LET c == calls[s]
      item == findItem(items, c.item_id, c.store)
  IN
  /\ c.tool = "add_item_alias" /\ c.pc = "find"
  /\ IF item = NoRow THEN return(s, c, fail("ITEM_NOT_FOUND"))
     ELSE IF \E k \in DOMAIN item.aliases :
                toLowerCase(item.aliases[k]) = toLowerCase(c.name)
     THEN return(s, c, fail("ALIAS_EXISTS"))
     ELSE goto(s, [c EXCEPT !.row = item,
                            !.aliases = Append(item.aliases, trim(c.name))],
               "update")
  /\ UNCHANGED <<aux, db, started, undone>>

add_item_alias_update(s) ==
  LET c == calls[s] IN
  /\ c.tool = "add_item_alias" /\ c.pc = "update"
  /\ items' = [items EXCEPT ![c.row.id].aliases = c.aliases]
  /\ return(s, c, [success("ALIAS_ADDED") EXCEPT !.rowId = c.row.id])
  /\ UNCHANGED <<aux, transactions, txnSeq, ledgerParties, ledgerEntries, entrySeq,
                 started, undone>>

set_min_stock_find(s) ==
  LET c == calls[s]
      item == findItem(items, c.item_id, c.store)
  IN
  /\ c.tool = "set_min_stock" /\ c.pc = "find"
  /\ IF item = NoRow THEN return(s, c, fail("ITEM_NOT_FOUND"))
     ELSE goto(s, [c EXCEPT !.row = item], "update")
  /\ UNCHANGED <<aux, db, started, undone>>

set_min_stock_update(s) ==
  LET c == calls[s] IN
  /\ c.tool = "set_min_stock" /\ c.pc = "update"
  /\ items' = [items EXCEPT ![c.row.id].minStock = c.qty]
  /\ return(s, c, [success("MIN_STOCK_SET") EXCEPT !.rowId = c.row.id])
  /\ UNCHANGED <<aux, transactions, txnSeq, ledgerParties, ledgerEntries, entrySeq,
                 started, undone>>

-----------------------------------------------------------------------------
(* A persistence failure: the statement the handler awaits rejects.  No      *)
(* handler catches it and no handler runs inside a database transaction, so  *)
(* the call ends there and the statements it has executed stay committed.    *)

persistence_failure(s) ==
  LET c == calls[s] IN
  /\ ~quiet(c)
  /\ return(s, c, [fail("THROWN") EXCEPT !.message = "thrown"])
  /\ UNCHANGED <<aux, db, started, undone>>

-----------------------------------------------------------------------------
(* The planner: which tool it calls, with which arguments *)

ItemIds == {1, 3}
TxnIds == 1..6
EntryIds == 1..4
SaleQtys == {1, 2}
AdjustQtys == {-2, 1}
DebtAmounts == {2}
PaymentAmounts == {2}
Names == {sa, sb, s_ab, sAd}
PartyNames == {sa, s_ab, sAd_}
NewAliases == {sa, s_ab}

SaleLines == <<[item_id |-> 1, qty |-> 2], [item_id |-> 3, qty |-> 1]>>

StockLines ==
  <<[name |-> sa, qty |-> 1, frac |-> FALSE],
    [name |-> sAd, qty |-> 2, frac |-> FALSE]>>

\* the batches of one to n lines that alternate the two lines
BatchesUpTo(l, n) == {[i \in 1..k |-> l[2 - (i % 2)]] : k \in 1..n}

req(tool, pc) == [IdleCall EXCEPT !.tool = tool, !.pc = pc]

Requests ==
       {[req("record_sale", "update") EXCEPT !.item_id = i, !.qty = q] :
          i \in ItemIds, q \in SaleQtys}
  \cup {[req("record_sale_batch", "line") EXCEPT !.lines = l, !.idx = 1] :
          l \in BatchesUpTo(SaleLines, MaxLines)}
  \cup {[req("add_stock", "match") EXCEPT !.name = n, !.qty = 2] : n \in Names}
  \cup {[req("add_stock", "find") EXCEPT !.item_id = i, !.name = n, !.qty = 2] :
          i \in ItemIds, n \in {sa}}
  \cup {[req("add_stock_batch", "line") EXCEPT !.lines = l, !.idx = 1] :
          l \in BatchesUpTo(StockLines, MaxLines)}
  \cup {[req("adjust_stock", "find") EXCEPT !.item_id = i, !.qty = q] :
          i \in ItemIds, q \in AdjustQtys}
  \cup {[req("adjust_stock", "find") EXCEPT !.item_id = 1, !.qty = 0]}
  \cup {[req("undo_action", "find") EXCEPT
            !.action_type = "transaction", !.item_id = i] : i \in TxnIds}
  \cup {[req("undo_action", "find") EXCEPT
            !.action_type = "ledger", !.item_id = i] : i \in EntryIds}
  \cup {[req("add_debt", "match") EXCEPT !.name = n, !.qty = a] :
          n \in PartyNames, a \in DebtAmounts}
  \cup {[req("receive_payment", "match") EXCEPT !.name = n, !.qty = a] :
          n \in PartyNames, a \in PaymentAmounts}
  \cup {[req("receive_payment", "match") EXCEPT !.name = s_ab, !.qty = 3]}
  \cup {[req("lookup_party", "match") EXCEPT !.name = n] : n \in PartyNames}
  \cup {[req("add_item", "check") EXCEPT !.name = n, !.aliases = al, !.qty = 0] :
          n \in {sAd}, al \in {<<>>, <<sa>>}}
  \cup {[req("add_item", "check") EXCEPT !.name = s_ab, !.qty = 0]}
  \cup {[req("add_item_alias", "find") EXCEPT !.item_id = i, !.name = n] :
          i \in {1}, n \in NewAliases}
  \cup {[req("add_item_alias", "find") EXCEPT !.item_id = 3, !.name = sa]}
  \cup {[req("set_min_stock", "find") EXCEPT !.item_id = i, !.qty = 0] :
          i \in ItemIds}

\* the batches the two concurrent turns draw from: one or two lines
RaceBatches ==
  {<<>>} \cup BatchesUpTo(SaleLines, 2) \cup BatchesUpTo(StockLines, 2)

RaceRequests == {r \in Requests : r.lines \in RaceBatches}

\* createTools(storeId) and one tool call through it
Invoke(s, requests) ==
  /\ quiet(calls[s])
  /\ \E storeId \in Stores, r \in requests :
       calls' = [calls EXCEPT ![s] =
         [r EXCEPT !.store = storeId, !.cid = started + 1, !.pre = db,
                   !.fresh = TRUE,
                   !.peer = IF \E t \in Slots \ {s} : calls[t].fresh
                            THEN calls[CHOOSE t \in Slots \ {s} : calls[t].fresh].cid
                            ELSE 0,
                   !.afterUndo = (<<r.action_type, r.item_id>> \in undone)]]
  /\ started' = started + 1
  /\ UNCHANGED <<aux, db, undone>>

\* one turn at a time: a call starts only when no other call is in flight
InvokeSeq(s) ==
  /\ \A t \in Slots : quiet(calls[t])
  /\ started < MaxCalls
  /\ Invoke(s, Requests)

Step(s) ==
  \/ record_sale_update(s) \/ record_sale_check(s) \/ record_sale_insert(s)
  \/ record_sale_batch_update(s) \/ record_sale_batch_check(s)
  \/ record_sale_batch_insert(s)
  \/ add_stock_find(s) \/ add_stock_match(s) \/ add_stock_create(s)
  \/ add_stock_increment(s) \/ add_stock_log(s)
  \/ add_stock_batch_match(s) \/ add_stock_batch_create(s)
  \/ add_stock_batch_increment(s) \/ add_stock_batch_log(s)
  \/ adjust_stock_find(s) \/ adjust_stock_update(s) \/ adjust_stock_insert(s)
  \/ undo_find_txn(s) \/ undo_reverse(s) \/ undo_delete_txn(s)
  \/ undo_find_entry(s) \/ undo_find_party(s) \/ undo_delete_entry(s)
  \/ add_debt_match(s) \/ add_debt_create(s) \/ add_debt_insert(s)
  \/ add_debt_balance(s)
  \/ receive_payment_match(s) \/ receive_payment_insert(s)
  \/ receive_payment_balance(s)
  \/ lookup_party_match(s) \/ lookup_party_balance(s)
  \/ add_item_check(s) \/ add_item_insert(s)
  \/ add_item_alias_find(s) \/ add_item_alias_update(s)
  \/ set_min_stock_find(s) \/ set_min_stock_update(s)

-----------------------------------------------------------------------------
(* A catalog and a ledger that earlier turns have built: store 1 stocked    *)
(* "Ab" (3) and sold 1, and stocked "Ac" (1); store 2 stocked "Ab" (3) and  *)
(* adjusted it by -1; add_debt created the parties "Ab", "Ac" (store 1) and *)
(* "Ab" (store 2).                                                          *)

Init ==
  /\ items = <<
       [id |-> 1, storeId |-> 1, name |-> sAb, aliases |-> <<>>,
        currentStock |-> 2, minStock |-> DefaultMinStock],
       [id |-> 2, storeId |-> 1, name |-> sAc, aliases |-> <<>>,
        currentStock |-> 1, minStock |-> DefaultMinStock],
       [id |-> 3, storeId |-> 2, name |-> sAb, aliases |-> <<>>,
        currentStock |-> 2, minStock |-> DefaultMinStock] >>
  /\ transactions = {
       newTxn(0, 1, "STOCK_IN", 1, 3), newTxn(1, 1, "SALE", 1, 1),
       newTxn(2, 1, "STOCK_IN", 2, 1),
       newTxn(3, 2, "STOCK_IN", 3, 3), newTxn(4, 2, "ADJUST", 3, -1) }
  /\ txnSeq = 5
  /\ ledgerParties = <<
       [id |-> 1, storeId |-> 1, name |-> sAb],
       [id |-> 2, storeId |-> 1, name |-> sAc],
       [id |-> 3, storeId |-> 2, name |-> sAb] >>
  /\ ledgerEntries = {newEntry(0, 1, 2), newEntry(1, 2, 2), newEntry(2, 3, 3)}
  /\ entrySeq = 3
  /\ calls = [s \in Slots |-> IdleCall]
  /\ started = 0
  /\ undone = {}
  /\ stores = <<[id |-> 1, telegramChatId |-> 1],
                [id |-> 2, telegramChatId |-> 2]>>
  /\ session = IdleSession
  /\ processedUpdates = <<>>
  /\ deliveries = NoDeliveries

\* two turns, of any stores, each making one tool call, run concurrently,
\* statement by statement; the turn of slot 1 is the one that starts first
InvokeOnce(s) ==
  /\ calls[s].pc = "idle"
  /\ \A t \in Slots : t < s => calls[t].pc # "idle"
  /\ Invoke(s, RaceRequests)

Next == \E s \in Slots : InvokeOnce(s) \/ Step(s)

Spec == Init /\ [][Next]_vars

\* turns run one after the other
NextSeq == InvokeSeq(1) \/ Step(1)

SpecSeq == Init /\ [][NextSeq]_vars

\* turns run one after the other, and a statement may fail
NextFail == InvokeSeq(1) \/ Step(1) \/ persistence_failure(1)

SpecFail == Init /\ [][NextFail]_vars

-----------------------------------------------------------------------------
(* The two rankers as functions: an array of rows, a query and a limit go   *)
(* in, the ranked rows come out.                                            *)

RankItemNames == {sAb, sAc, scAb}
RankAliases == {<<>>, <<sa>>, <<sAb>>, <<sAc, sa>>}
RankPartyNames == {sAb, sAbc, sa, scAb, sb, sAc}
RankQueries == {sa, s_ab, sb}
RankLimits == {1, 2, 3}

RankItemRows ==
  {[storeId |-> 1, name |-> n, aliases |-> al, currentStock |-> 0,
    minStock |-> DefaultMinStock] : n \in RankItemNames, al \in RankAliases}

RankPartyRows == {[storeId |-> 1, name |-> n] : n \in RankPartyNames}

\* the array of these rows, the id of a row being its position
withIds(f) == [i \in DOMAIN f |-> [id |-> i] @@ f[i]]

InitRank ==
  /\ \E k \in 1..MaxRows :
       \/ \E f \in [1..k -> RankItemRows] :
            items = withIds(f) /\ ledgerParties = <<>>
       \/ \E f \in [1..k -> RankPartyRows] :
            items = <<>> /\ ledgerParties = withIds(f)
  /\ transactions = {} /\ txnSeq = 0
  /\ ledgerEntries = {} /\ entrySeq = 0
  /\ calls = [s \in Slots |-> IdleCall]
  /\ started = 0
  /\ undone = {}
  /\ stores = <<>>
  /\ session = IdleSession
  /\ processedUpdates = <<>>
  /\ deliveries = NoDeliveries

\* const matches = rankItemMatches(allItems, query, limit)
apply_rankItemMatches(s) ==
  /\ calls[s].pc = "idle"
  /\ items # <<>>
  /\ \E query \in RankQueries, limit \in RankLimits :
       calls' = [calls EXCEPT ![s] =
         [req("rankItemMatches", "done") EXCEPT
            !.name = query, !.qty = limit,
            !.lines = rankItemMatches(items, query, limit)]]
  /\ UNCHANGED <<aux, db, started, undone>>

\* const matches = rankPartyMatches(allParties, name, limit)
apply_rankPartyMatches(s) ==
  /\ calls[s].pc = "idle"
  /\ ledgerParties # <<>>
  /\ \E query \in RankQueries, limit \in RankLimits :
       calls' = [calls EXCEPT ![s] =
         [req("rankPartyMatches", "done") EXCEPT
            !.name = query, !.qty = limit,
            !.lines = rankPartyMatches(ledgerParties, query, limit)]]
  /\ UNCHANGED <<aux, db, started, undone>>

NextRank == apply_rankItemMatches(1) \/ apply_rankPartyMatches(1)

SpecRank == InitRank /\ [][NextRank]_vars

-----------------------------------------------------------------------------
(* check_low_stock and suggest_reorder: one SELECT each, over a catalog of  *)
(* any stocks and thresholds.                                               *)

\* lowStock that leaves out the items exactly at their threshold
lowStockBelow(tbl, storeId) ==
  {tbl[i] : i \in {k \in DOMAIN tbl :
     tbl[k].storeId = storeId /\ tbl[k].currentStock < tbl[k].minStock}}

\* WHERE store_id = storeId AND current_stock <= min_stock
lowStock(tbl, storeId) ==
  {tbl[i] : i \in {k \in DOMAIN tbl :
     tbl[k].storeId = storeId /\ tbl[k].currentStock <= tbl[k].minStock}}

\* ORDER BY current_stock - min_stock LIMIT limit: rows of equal key come in
\* any order
orderByShortfall(S, limit) ==
  {take(o, limit) : o \in {f \in Orderings(S) :
     \A j, k \in DOMAIN f :
       j < k => f[j].currentStock - f[j].minStock
                  <= f[k].currentStock - f[k].minStock}}

check_low_stock(s) ==
  LET c == calls[s] IN
  /\ c.tool = "check_low_stock" /\ c.pc = "select"
  /\ \E lowItems \in orderByShortfall(lowStock(items, c.store), c.qty) :
       IF lowItems = <<>>
       THEN return(s, c, success("NO_LOW_STOCK"))
       ELSE return(s, [c EXCEPT !.lines =
                         [k \in DOMAIN lowItems |->
                            [id |-> lowItems[k].id, name |-> lowItems[k].name,
                             currentStock |-> lowItems[k].currentStock,
                             minStock |-> lowItems[k].minStock]]],
                   success("LOW_STOCK_FOUND"))
  /\ UNCHANGED <<aux, db, started, undone>>

\* suggestedQty that only fills the item up to its threshold
suggestedQtyToThreshold(i) == i.minStock - i.currentStock

\* Math.max(i.minStock * 2 - i.currentStock, i.minStock)
suggestedQty(i) ==
  IF i.minStock * 2 - i.currentStock >= i.minStock
  THEN i.minStock * 2 - i.currentStock
  ELSE i.minStock

suggest_reorder(s) ==
  LET c == calls[s] IN
  /\ c.tool = "suggest_reorder" /\ c.pc = "select"
  /\ \E lowItems \in orderByShortfall(lowStock(items, c.store), c.qty) :
       IF lowItems = <<>>
       THEN return(s, c, success("NO_REORDER_NEEDED"))
       ELSE return(s, [c EXCEPT !.lines =
                         [k \in DOMAIN lowItems |->
                            [id |-> lowItems[k].id, name |-> lowItems[k].name,
                             currentStock |-> lowItems[k].currentStock,
                             minStock |-> lowItems[k].minStock,
                             suggestedQty |-> suggestedQty(lowItems[k])]]],
                   success("REORDER_SUGGESTED"))
  /\ UNCHANGED <<aux, db, started, undone>>

LowStocks == {-1, 0, 2}
LowMins == {0, 1}
LowLimits == {1, 2}

LowRows ==
  {[storeId |-> st, name |-> sAb, aliases |-> <<>>, currentStock |-> cur,
    minStock |-> mn] : st \in Stores, cur \in LowStocks, mn \in LowMins}

LowRequests ==
  {[req(t, "select") EXCEPT !.qty = limit] :
     t \in {"check_low_stock", "suggest_reorder"}, limit \in LowLimits}

InitLow ==
  /\ \E k \in 0..MaxRows : \E f \in [1..k -> LowRows] : items = withIds(f)
  /\ transactions = {} /\ txnSeq = 0
  /\ ledgerParties = <<>> /\ ledgerEntries = {} /\ entrySeq = 0
  /\ calls = [s \in Slots |-> IdleCall]
  /\ started = 0
  /\ undone = {}
  /\ stores = <<[id |-> 1, telegramChatId |-> 1],
                [id |-> 2, telegramChatId |-> 2]>>
  /\ session = IdleSession
  /\ processedUpdates = <<>>
  /\ deliveries = NoDeliveries

\* one call of one of the two tools
InvokeLow(s) == calls[s].pc = "idle" /\ Invoke(s, LowRequests)

NextLow == InvokeLow(1) \/ check_low_stock(1) \/ suggest_reorder(1)

SpecLow == InitLow /\ [][NextLow]_vars

-----------------------------------------------------------------------------
(* get_daily_summary.  Instants are milliseconds since the epoch, a date    *)
(* "YYYY-MM-DD" is its day number since the epoch; the rows of transactions *)
(* and ledger_entries carry their column ts here.                           *)

\* milliseconds in a day, and the offset +05:30
DayMs == 86400000
IstOffsetMs == 19800000

\* new Date(`${d}T${time}${offset}`): the instant at which a clock set
\* offsetMs ahead of UTC shows msOfDay on day d
parseDate(d, msOfDay, offsetMs) == d * DayMs + msOfDay - offsetMs

\* getISTDayBounds that takes the day in UTC
getUTCDayBounds(dateStr) ==
  [start |-> parseDate(dateStr, 0, 0),
   end   |-> parseDate(dateStr, DayMs - 1, 0),
   label |-> dateStr]

getISTDayBounds(dateStr) ==
  [start |-> parseDate(dateStr, 0, IstOffsetMs),
   end   |-> parseDate(dateStr, DayMs - 1, IstOffsetMs),
   label |-> dateStr]

RECURSIVE sumQty(_)
\* rows.reduce((sum, t) => sum + t.qty, 0)
sumQty(S) ==
  IF S = {} THEN 0
  ELSE LET t == CHOOSE x \in S : TRUE IN t.qty + sumQty(S \ {t})

SummaryDates == {1, 2}

get_daily_summary(s) ==
  /\ calls[s].pc = "idle"
  /\ \E storeId \in Stores, date \in SummaryDates :
       LET bounds == getISTDayBounds(date)
           dayTxns == {t \in transactions :
                         /\ t.storeId = storeId
                         /\ t.ts >= bounds.start /\ t.ts <= bounds.end}
           sales == {t \in dayTxns : t.type = "SALE"}
           stockIns == {t \in dayTxns : t.type = "STOCK_IN"}
           adjustments == {t \in dayTxns : t.type = "ADJUST"}
           partyIds == {p.id : p \in storeParties(ledgerParties, storeId)}
           dayLedger == IF partyIds = {} THEN {}
                        ELSE {e \in ledgerEntries :
                                /\ e.partyId \in partyIds
                                /\ e.ts >= bounds.start /\ e.ts <= bounds.end}
           newUdhar == sumDelta({e \in dayLedger : e.deltaAmount > 0})
           received == 0 - sumDelta({e \in dayLedger : e.deltaAmount < 0})
           lowItems == lowStock(items, storeId)
       IN  calls' = [calls EXCEPT ![s] =
             [req("get_daily_summary", "done") EXCEPT
                !.store = storeId, !.item_id = date,
                !.res = success("SUMMARY_GENERATED"),
                !.row = [date |-> bounds.label,
                         salesCount |-> Cardinality(sales),
                         salesTotalQty |-> sumQty(sales),
                         stockInsCount |-> Cardinality(stockIns),
                         adjustmentsCount |-> Cardinality(adjustments),
                         newUdhar |-> newUdhar,
                         paymentsReceived |-> received,
                         lowStockCount |-> Cardinality(lowItems)]]]
  /\ UNCHANGED <<aux, db, started, undone>>

\* rows of transactions and ledger_entries in one behaviour
MaxDayRows == 2

\* the last instant before day 1 in +05:30, its first and last instants, and
\* the first instant of day 2
DayTimes ==
  {parseDate(1, 0, IstOffsetMs) - 1, parseDate(1, 0, IstOffsetMs),
   parseDate(1, DayMs - 1, IstOffsetMs), parseDate(2, 0, IstOffsetMs)}

DayTxnRows ==
  {[storeId |-> st, type |-> ty.type, itemId |-> st, qty |-> ty.qty, ts |-> ts] :
     st \in Stores,
     ty \in {[type |-> "SALE", qty |-> 2], [type |-> "STOCK_IN", qty |-> 3],
             [type |-> "ADJUST", qty |-> -1]},
     ts \in DayTimes}

DayEntryRows ==
  {[partyId |-> p, deltaAmount |-> a, ts |-> ts] :
     p \in {1, 2}, a \in {2, -1}, ts \in DayTimes}

\* the two parties belong to one tenant each, or both to tenant 2
DayParties ==
  {<<[id |-> 1, storeId |-> st, name |-> sAb],
     [id |-> 2, storeId |-> 2, name |-> sAc]>> : st \in Stores}

InitDay ==
  /\ items = <<[id |-> 1, storeId |-> 1, name |-> sAb, aliases |-> <<>>,
                currentStock |-> 2, minStock |-> DefaultMinStock],
               [id |-> 2, storeId |-> 2, name |-> sAb, aliases |-> <<>>,
                currentStock |-> 6, minStock |-> DefaultMinStock]>>
  /\ \E k \in 0..MaxDayRows : \E j \in 0..(MaxDayRows - k) :
       \E f \in [1..k -> DayTxnRows], g \in [1..j -> DayEntryRows] :
         /\ transactions = {withIds(f)[i] : i \in 1..k} /\ txnSeq = k
         /\ ledgerEntries = {withIds(g)[i] : i \in 1..j} /\ entrySeq = j
  /\ ledgerParties \in DayParties
  /\ calls = [s \in Slots |-> IdleCall]
  /\ started = 0
  /\ undone = {}
  /\ stores = <<[id |-> 1, telegramChatId |-> 1],
                [id |-> 2, telegramChatId |-> 2]>>
  /\ session = IdleSession
  /\ processedUpdates = <<>>
  /\ deliveries = NoDeliveries

NextDay == get_daily_summary(1)

SpecDay == InitDay /\ [][NextDay]_vars

-----------------------------------------------------------------------------
(* getOrCreateStore(chatId): the store of a Telegram chat, created on first *)
(* contact.  stores.telegram_chat_id is UNIQUE.  The id of a new row is the *)
(* next index: the value a failed INSERT takes from the serial sequence is  *)
(* not modelled.                                                            *)

\* calls of getOrCreateStore started in one behaviour
MaxContacts == 3

\* a message of the chat arrives and the handler calls getOrCreateStore
contact(s) ==
  /\ quiet(calls[s])
  /\ started < MaxContacts
  /\ \E chatId \in ChatIds :
       calls' = [calls EXCEPT ![s] =
         [req("getOrCreateStore", "select") EXCEPT
            !.item_id = chatId, !.cid = started + 1]]
  /\ started' = started + 1
  /\ UNCHANGED <<dedup, db, undone, stores, session>>

\* SELECT id FROM stores WHERE telegram_chat_id = chatId LIMIT 1
getOrCreateStore_select(s) ==
  LET c == calls[s]
      found == {i \in DOMAIN stores : stores[i].telegramChatId = c.item_id}
  IN
  /\ c.tool = "getOrCreateStore" /\ c.pc = "select"
  /\ IF found # {}
     THEN \E i \in found :
            return(s, c, [success("RETURNED") EXCEPT !.rowId = stores[i].id])
     ELSE goto(s, c, "insert")
  /\ UNCHANGED <<dedup, db, started, undone, stores, session>>

\* INSERT INTO stores (telegram_chat_id) VALUES (chatId) RETURNING id: the
\* statement rejects when the chat has a store already, and nothing catches it
getOrCreateStore_insert(s) ==
  LET c == calls[s]
      row == [id |-> Len(stores) + 1, telegramChatId |-> c.item_id]
  IN
  /\ c.tool = "getOrCreateStore" /\ c.pc = "insert"
  /\ IF \E i \in DOMAIN stores : stores[i].telegramChatId = c.item_id
     THEN /\ return(s, c, [fail("THROWN") EXCEPT !.message = "thrown"])
          /\ UNCHANGED stores
     ELSE /\ stores' = Append(stores, row)
          /\ return(s, [c EXCEPT !.created = TRUE],
                    [success("RETURNED") EXCEPT !.rowId = row.id])
  /\ UNCHANGED <<dedup, db, started, undone, session>>

InitStore ==
  /\ items = <<>> /\ transactions = {} /\ txnSeq = 0
  /\ ledgerParties = <<>> /\ ledgerEntries = {} /\ entrySeq = 0
  /\ calls = [s \in Slots |-> IdleCall]
  /\ started = 0
  /\ undone = {}
  /\ stores = <<>>
  /\ session = IdleSession
  /\ processedUpdates = <<>>
  /\ deliveries = NoDeliveries

NextStore ==
  \E s \in Slots :
    contact(s) \/ getOrCreateStore_select(s) \/ getOrCreateStore_insert(s)

SpecStore == InitStore /\ [][NextStore]_vars

-----------------------------------------------------------------------------
(* One chat handled by the bot: processMessage resolves the store, runAgent *)
(* runs generateText (planner steps and the tool calls they request, until  *)
(* a step requests no tool or stopWhen holds), and the reply is sent.  The  *)
(* tool calls run in slot 1, statement by statement, and a statement may    *)
(* fail.  Sending a reply is taken to succeed.                              *)

\* stopWhen: stepCountIs(5)
MaxSteps == 5

\* messages of the chat in one behaviour
MaxTurns == 2

Apology == "Kuch gadbad ho gayi. Dobara try karo."
SetupPrompt == "You're not in any organization yet."

\* the text a planner step may end with
PlannerTexts == {"", "ok"}

\* the tool calls the planner may request
AgentRequests ==
  {[req("record_sale", "update") EXCEPT !.item_id = 1, !.qty = 2],
   [req("check_low_stock", "select") EXCEPT !.qty = 1]}

\* stepCountIs that stops one step later
stepCountIsNext(stepCount, steps) == steps = stepCount + 1

\* stepCountIs(stepCount): the number of steps taken is stepCount
stepCountIs(stepCount, steps) == steps = stepCount

\* text || "Done." without the fallback
fallbackNone(text) == text

\* text || "Done."
fallback(text) == IF text = "" THEN "Done." ELSE text

\* the catch block without its reply
caughtSilent(replies) == replies

\* catch (err) { console.error(...); await ctx.reply("Kuch gadbad ...") }
caught(replies) == Append(replies, Apology)

\* a text message arrives and processMessage resolves the store: it finds
\* one, finds none (and prompts to set one up), or the resolution throws
processMessage ==
  /\ session.phase = "Idle"
  /\ session.turns < MaxTurns
  /\ LET begun == [IdleSession EXCEPT !.turns = session.turns + 1] IN
     \/ \E storeId \in Stores :
          session' = [begun EXCEPT !.phase = "Planning", !.storeId = storeId]
     \/ session' = [begun EXCEPT !.replies = <<SetupPrompt>>]
     \/ session' = [begun EXCEPT !.phase = "Caught", !.thrown = TRUE]
  /\ UNCHANGED <<dedup, db, calls, started, undone, stores>>

\* one step of generateText: the planner answers with text only, which ends
\* the loop, or requests a tool call, which createTools(storeId) executes
generateText_step ==
  /\ session.phase = "Planning"
  /\ \E text \in PlannerTexts :
       LET next == [session EXCEPT !.steps = @ + 1, !.text = text] IN
       \/ /\ session' = [next EXCEPT !.phase = "Responding"]
          /\ UNCHANGED <<calls, started>>
       \/ /\ session' = [next EXCEPT !.phase = "ToolCall"]
          /\ \E r \in AgentRequests :
               calls' = [calls EXCEPT ![1] =
                 [r EXCEPT !.store = session.storeId, !.cid = started + 1,
                           !.pre = db]]
          /\ started' = started + 1
  /\ UNCHANGED <<dedup, db, undone, stores>>

\* the model call of a step rejects: generateText, and so runAgent, throws
generateText_throws ==
  /\ session.phase = "Planning"
  /\ session' = [session EXCEPT !.phase = "Caught", !.thrown = TRUE]
  /\ UNCHANGED <<dedup, db, calls, started, undone, stores>>

\* a statement of the tool call in flight
tool_statement ==
  /\ session.phase = "ToolCall"
  /\ \/ record_sale_update(1) \/ record_sale_check(1) \/ record_sale_insert(1)
     \/ check_low_stock(1)
     \/ persistence_failure(1)

\* the tool call is over: its result, whatever its ok, goes to the planner
\* for the next step unless stopWhen holds; a handler that threw either is
\* handed to the planner as an error result or makes generateText throw
generateText_toolResult ==
  LET c == calls[1]
      next == [session EXCEPT !.toolRounds = @ + 1,
                              !.failedRounds = IF c.res.ok THEN @ ELSE @ + 1]
  IN
  /\ session.phase = "ToolCall" /\ c.pc = "done"
  /\ \/ session' = [next EXCEPT !.phase =
                      IF stepCountIs(MaxSteps, session.steps)
                      THEN "Responding" ELSE "Planning"]
     \/ /\ c.res.code = "THROWN"
        /\ session' = [next EXCEPT !.phase = "Caught", !.thrown = TRUE]
  /\ UNCHANGED <<dedup, db, calls, started, undone, stores>>

\* return text || "Done."; await ctx.reply(reply)
processMessage_reply ==
  /\ session.phase = "Responding"
  /\ session' = [session EXCEPT
                   !.phase = "Idle",
                   !.replies = Append(@, fallback(session.text))]
  /\ UNCHANGED <<dedup, db, calls, started, undone, stores>>

processMessage_catch ==
  /\ session.phase = "Caught"
  /\ session' = [session EXCEPT !.phase = "Idle", !.replies = caught(@)]
  /\ UNCHANGED <<dedup, db, calls, started, undone, stores>>

\* what a turn does once its message has arrived
turnStep ==
  \/ generateText_step \/ generateText_throws \/ tool_statement
  \/ generateText_toolResult \/ processMessage_reply \/ processMessage_catch

NextAgent == processMessage \/ turnStep

SpecAgent == Init /\ [][NextAgent]_vars

\* every awaited call settles: a turn that can take a step takes one
SpecAgentFair == SpecAgent /\ WF_vars(turnStep)

-----------------------------------------------------------------------------
(* The quantity schemas of the stock tools.  The planner's quantity is any   *)
(* JSON number; here it is counted in halves (h = 3 is 1.5).                 *)

StockTools ==
  {"record_sale", "record_sale_batch", "add_stock", "add_stock_batch",
   "adjust_stock"}

Halves == -2..3

\* z.number().int()
isInt(h) == h % 2 = 0

\* z.number().positive()
isPositive(h) == h > 0

\* the qty member of each tool's inputSchema
qtySchema(tool, h) ==
  CASE tool \in {"record_sale", "record_sale_batch"} -> isInt(h) /\ isPositive(h)
    [] tool \in {"add_stock", "add_stock_batch"} -> isPositive(h)
    [] tool = "adjust_stock" -> isInt(h)

\* the call the parsed input makes
qtyRequests(tool, h) ==
  LET q == h \div 2
      f == ~isInt(h)
  IN  CASE tool = "record_sale" ->
             {[req("record_sale", "update") EXCEPT !.item_id = 1, !.qty = q]}
        [] tool = "record_sale_batch" ->
             {[req("record_sale_batch", "line") EXCEPT
                 !.lines = <<[item_id |-> 1, qty |-> q]>>, !.idx = 1]}
        [] tool = "add_stock" ->
             {[req("add_stock", "find") EXCEPT
                 !.item_id = 1, !.name = sa, !.qty = q, !.frac = f],
              [req("add_stock", "match") EXCEPT
                 !.name = sAd, !.qty = q, !.frac = f]}
        [] tool = "add_stock_batch" ->
             {[req("add_stock_batch", "line") EXCEPT
                 !.lines = <<[name |-> n, qty |-> q, frac |-> f]>>, !.idx = 1] :
                n \in {sa, sAd}}
        [] tool = "adjust_stock" ->
             {[req("adjust_stock", "find") EXCEPT !.item_id = 1, !.qty = q]}

\* the tool's input is validated against inputSchema; execute runs only on
\* input the schema accepts
inputSchema_accepts(s) ==
  /\ started < MaxCalls
  /\ \E tool \in StockTools, h \in Halves :
       /\ qtySchema(tool, h)
       /\ Invoke(s, qtyRequests(tool, h))

inputSchema_rejects(s) ==
  /\ started < MaxCalls
  /\ quiet(calls[s])
  /\ \E tool \in StockTools, h \in Halves :
       /\ ~qtySchema(tool, h)
       /\ calls' = [calls EXCEPT ![s] =
            [req(tool, "done") EXCEPT !.cid = started + 1,
                                      !.res = fail("INVALID_TOOL_INPUT")]]
  /\ started' = started + 1
  /\ UNCHANGED <<aux, db, undone>>

\* current_stock is an integer column: the increment by a quantity that is
\* not an integer is either rounded on assignment (add_stock_increment) or
\* rejected as a statement, which nothing catches
integer_column_rejects(s) ==
  LET c == calls[s] IN
  /\ c.tool \in {"add_stock", "add_stock_batch"} /\ c.pc = "increment"
  /\ IF c.tool = "add_stock" THEN c.frac ELSE c.lines[c.idx].frac
  /\ return(s, c, [fail("THROWN") EXCEPT !.message = "thrown"])
  /\ UNCHANGED <<aux, db, started, undone>>

NextQty ==
  \/ inputSchema_accepts(1) \/ inputSchema_rejects(1)
  \/ record_sale_update(1) \/ record_sale_check(1) \/ record_sale_insert(1)
  \/ record_sale_batch_update(1) \/ record_sale_batch_check(1)
  \/ record_sale_batch_insert(1)
  \/ add_stock_find(1) \/ add_stock_match(1) \/ add_stock_create(1)
  \/ add_stock_increment(1) \/ add_stock_log(1)
  \/ add_stock_batch_match(1) \/ add_stock_batch_create(1)
  \/ add_stock_batch_increment(1) \/ add_stock_batch_log(1)
  \/ adjust_stock_find(1) \/ adjust_stock_update(1) \/ adjust_stock_insert(1)
  \/ integer_column_rejects(1)

SpecQty == Init /\ [][NextQty]_vars

-----------------------------------------------------------------------------
(* Longer sequences of stock calls on the seeded catalog, one at a time *)

MaxStockCalls == 3

StockRequests ==
       {[req("record_sale", "update") EXCEPT !.item_id = 1, !.qty = q] :
          q \in {1, 3}}
  \cup {[req("add_stock", "find") EXCEPT !.item_id = 1, !.name = sAb, !.qty = 2]}
  \cup {[req("adjust_stock", "find") EXCEPT !.item_id = 1, !.qty = q] :
          q \in AdjustQtys}
  \cup {[req("undo_action", "find") EXCEPT
            !.action_type = "transaction", !.item_id = i] : i \in {1, 2, 6, 7}}

InvokeStock(s) ==
  /\ started < MaxStockCalls
  /\ Invoke(s, StockRequests)

NextStock ==
  \/ InvokeStock(1)
  \/ record_sale_update(1) \/ record_sale_check(1) \/ record_sale_insert(1)
  \/ add_stock_find(1) \/ add_stock_match(1)
  \/ add_stock_increment(1) \/ add_stock_log(1)
  \/ adjust_stock_find(1) \/ adjust_stock_update(1) \/ adjust_stock_insert(1)
  \/ undo_find_txn(1) \/ undo_reverse(1) \/ undo_delete_txn(1)

SpecStock == Init /\ [][NextStock]_vars

-----------------------------------------------------------------------------
(* list_recent_actions, and turns that list and then undo.  The rows carry  *)
(* no timestamp here, so ORDER BY ts DESC is any order of the selected rows. *)

\* recentTxns without the storeId predicate
recentTxnsAnyStore(tbl, storeId) == tbl

\* .from(transactions).where(eq(transactions.storeId, storeId))
recentTxns(tbl, storeId) == {t \in tbl : t.storeId = storeId}

\* .from(ledgerEntries).where(or(...pIds.map((id) => eq(ledgerEntries.partyId, id))))
recentLedger(tbl, pIds) ==
  {e \in tbl : \E k \in DOMAIN pIds : e.partyId = pIds[k]}

\* .orderBy(desc(ts)).limit(limit), as the ids of the rows
orderByTs(S, limit) ==
  {[k \in DOMAIN take(o, limit) |-> o[k].id] : o \in Orderings(S)}

list_recent_transactions(s) ==
  LET c == calls[s] IN
  /\ c.tool = "list_recent_actions" /\ c.pc = "transactions"
  /\ \E ids \in orderByTs(recentTxns(transactions, c.store), c.qty) :
       goto(s, [c EXCEPT !.row = [transactions |-> ids, ledgerEntries |-> <<>>]],
            "parties")
  /\ UNCHANGED <<aux, db, started, undone>>

list_recent_parties(s) ==
  LET c == calls[s]
      storePartyIds == SelectSeq(ledgerParties, LAMBDA p : p.storeId = c.store)
      pIds == [k \in DOMAIN storePartyIds |-> storePartyIds[k].id]
  IN
  /\ c.tool = "list_recent_actions" /\ c.pc = "parties"
  /\ IF pIds # <<>>
     THEN goto(s, [c EXCEPT !.lines = pIds], "ledger")
     ELSE return(s, c, success("RECENT_LISTED"))
  /\ UNCHANGED <<aux, db, started, undone>>

list_recent_ledger(s) ==
  LET c == calls[s] IN
  /\ c.tool = "list_recent_actions" /\ c.pc = "ledger"
  /\ \E ids \in orderByTs(recentLedger(ledgerEntries, c.lines), c.qty) :
       return(s, [c EXCEPT !.row.ledgerEntries = ids], success("RECENT_LISTED"))
  /\ UNCHANGED <<aux, db, started, undone>>

MaxListCalls == 3
ListLimits == {1, 2}

ListRequests ==
  {[req("list_recent_actions", "transactions") EXCEPT !.qty = l] : l \in ListLimits}

ListedRequests ==
       {[req("record_sale", "update") EXCEPT !.item_id = 1, !.qty = 1]}
  \cup {[req("add_debt", "match") EXCEPT !.name = n, !.qty = 2] : n \in {s_ab, sAd_}}
  \cup {[req("undo_action", "find") EXCEPT
            !.action_type = "transaction", !.item_id = i] : i \in {1, 2, 4, 6}}
  \cup {[req("undo_action", "find") EXCEPT
            !.action_type = "ledger", !.item_id = i] : i \in {1, 3, 4}}

\* one turn lists (slot 2); the turns before and after it (slot 1) sell, lend
\* and undo; all of them run one after the other
InvokeList(s) ==
  /\ \A t \in Slots : quiet(calls[t])
  /\ started < MaxListCalls
  /\ calls[s].pc = "idle"
  /\ Invoke(s, ListRequests)

InvokeListed(s) ==
  /\ \A t \in Slots : quiet(calls[t])
  /\ started < MaxListCalls
  /\ Invoke(s, ListedRequests)

NextList ==
  \/ InvokeList(2) \/ InvokeListed(1)
  \/ list_recent_transactions(2) \/ list_recent_parties(2)
  \/ list_recent_ledger(2)
  \/ record_sale_update(1) \/ record_sale_check(1) \/ record_sale_insert(1)
  \/ add_debt_match(1) \/ add_debt_create(1) \/ add_debt_insert(1)
  \/ add_debt_balance(1)
  \/ undo_find_txn(1) \/ undo_reverse(1) \/ undo_delete_txn(1)
  \/ undo_find_entry(1) \/ undo_find_party(1) \/ undo_delete_entry(1)

SpecList == Init /\ [][NextList]_vars

-----------------------------------------------------------------------------
(* The idempotency guard of the bot and the deliveries of messages.  The     *)
(* Set keeps insertion order; MAX_PROCESSED (1000 in the bot) is scaled down. *)

MAX_PROCESSED == 2

MaxDeliveries == 4

\* processedUpdates.has(key)
has(set, key) == \E k \in DOMAIN set : set[k] = key

\* the last n elements of a sequence
lastN(s, n) == IF Len(s) > n THEN SubSeq(s, Len(s) - n + 1, Len(s)) ELSE s

\* markProcessed that never adds the key
markProcessedNoAdd(set, key) == [seen |-> has(set, key), set |-> set]

\* markProcessed(chatId, messageId): what it returns and the Set it leaves
markProcessed(set, key) ==
  IF has(set, key) THEN [seen |-> TRUE, set |-> set]
  ELSE LET added == Append(set, key)
       IN  [seen |-> FALSE,
            set |-> IF Len(added) > MAX_PROCESSED THEN Tail(added) ELSE added]

\* the history after a delivery of key that the guard let through (phase) or
\* dropped
delivered(key, seen, phase) ==
  IF seen
  THEN [deliveries EXCEPT !.last = key, !.dropped = TRUE]
  ELSE [deliveries EXCEPT
          !.last = key, !.dropped = FALSE,
          !.recent = lastN(Append(@, key), MAX_PROCESSED),
          !.phase[key] = phase,
          !.invoked[key] = IF phase = "running" THEN @ + 1 ELSE @]

\* bot.on("message:text"); processMessage starts within the same step
message_text(chatId, messageId, text) ==
  LET key == <<chatId, messageId>>
      m == markProcessed(processedUpdates, key)
  IN
  /\ started < MaxDeliveries
  /\ started' = started + 1
  /\ processedUpdates' = m.set
  /\ deliveries' = delivered(key, m.seen,
                             IF trim(text) = <<>> THEN "empty" ELSE "running")
  /\ UNCHANGED <<db, calls, undone, stores, session>>

\* bot.on("message:voice") up to the first await after the guard
message_voice(chatId, messageId) ==
  LET key == <<chatId, messageId>>
      m == markProcessed(processedUpdates, key)
  IN
  /\ started < MaxDeliveries
  /\ started' = started + 1
  /\ processedUpdates' = m.set
  /\ deliveries' = delivered(key, m.seen, "transcribing")
  /\ UNCHANGED <<db, calls, undone, stores, session>>

\* the transcription settles: a text, and processMessage starts; no text; or
\* a thrown error, caught by the handler
voice_transcribed(key) ==
  /\ deliveries.phase[key] = "transcribing"
  /\ \E phase \in {"running", "empty", "failed"} :
       deliveries' = [deliveries EXCEPT
                        !.phase[key] = phase,
                        !.invoked[key] = IF phase = "running" THEN @ + 1 ELSE @]
  /\ UNCHANGED <<db, calls, started, undone, stores, session, processedUpdates>>

\* processMessage settles: it replied, or it failed and sent the apology
processMessage_settled(key) ==
  /\ deliveries.phase[key] = "running"
  /\ \E phase \in {"replied", "failed"} :
       deliveries' = [deliveries EXCEPT !.phase[key] = phase]
  /\ UNCHANGED <<db, calls, started, undone, stores, session, processedUpdates>>

NextDedup ==
  \/ \E chatId \in ChatIds, messageId \in MessageIds, text \in {<<" ">>, sa} :
       message_text(chatId, messageId, text)
  \/ \E chatId \in ChatIds, messageId \in MessageIds :
       message_voice(chatId, messageId)
  \/ \E key \in Keys : voice_transcribed(key)
  \/ \E key \in Keys : processMessage_settled(key)

SpecDedup == Init /\ [][NextDedup]_vars

-----------------------------------------------------------------------------
(* Properties *)

preItems(c) == c.pre[1]
preTransactions(c) == c.pre[2]
preParties(c) == c.pre[4]
preEntries(c) == c.pre[5]

done(c, tool) == c.tool = tool /\ c.pc = "done"

\* the item is a row of the tenant in the table tbl
owns(tbl, storeId, item_id) ==
  item_id \in DOMAIN tbl /\ tbl[item_id].storeId = storeId

\* s2 started while s1 had not yet executed any statement, both selling the
\* same quantity of the same item of their store, the stock being exactly
\* that quantity
racingSales(s1, s2) ==
  LET c1 == calls[s1]
      c2 == calls[s2]
  IN  /\ done(c1, "record_sale") /\ done(c2, "record_sale")
      /\ c2.peer = c1.cid
      /\ c1.store = c2.store /\ c1.item_id = c2.item_id /\ c1.qty = c2.qty
      /\ owns(preItems(c2), c2.store, c2.item_id)
      /\ preItems(c2)[c2.item_id].currentStock = c2.qty

\* C1: two concurrent record_sale calls for the same item, the stock being
\* exactly the quantity each asks for: one returns SALE_RECORDED, the other
\* INSUFFICIENT_STOCK, the final stock is 0 and exactly one SALE transaction
\* has been appended.
C1_OneOfTwoRacingSalesWins ==
  \A s1, s2 \in Slots :
    racingSales(s1, s2) =>
      LET c1 == calls[s1]
          c2 == calls[s2]
          appended == transactions \ preTransactions(c2)
      IN  /\ \/ c1.res.code = "SALE_RECORDED" /\ c2.res.code = "INSUFFICIENT_STOCK"
             \/ c2.res.code = "SALE_RECORDED" /\ c1.res.code = "INSUFFICIENT_STOCK"
          /\ items[c2.item_id].currentStock = 0
          /\ Cardinality(appended) = 1
          /\ \A t \in appended :
               t.type = "SALE" /\ t.itemId = c2.item_id /\ t.qty = c2.qty

C1_Witness == \E s1, s2 \in Slots : racingSales(s1, s2)

signedQty(t) == IF t.type = "SALE" THEN 0 - t.qty ELSE t.qty

RECURSIVE signedSum(_)
signedSum(S) ==
  IF S = {} THEN 0
  ELSE LET t == CHOOSE x \in S : TRUE IN signedQty(t) + signedSum(S \ {t})

stockMatchesLog(i) ==
  items[i].currentStock = signedSum({t \in transactions : t.itemId = i})

\* C2: turns running one after the other: whenever no call is in flight,
\* every item's currentStock is the sum of the signed quantities of its
\* remaining transactions (-qty SALE, +qty STOCK_IN, the stored qty ADJUST).
C2_StockIsSumOfTransactions ==
  (\A s \in Slots : quiet(calls[s])) => \A i \in DOMAIN items : stockMatchesLog(i)

C2_Witness ==
  /\ done(calls[1], "undo_action") /\ calls[1].res.code = "ACTION_UNDONE"
  /\ calls[1].action_type = "transaction"
  /\ \E t \in preTransactions(calls[1]) :
       t.id = calls[1].item_id /\ t.type = "ADJUST"
  /\ started = MaxCalls

\* C3: record_sale on an item of the tenant with qty above the stock returns
\* INSUFFICIENT_STOCK with the current stock, and changes neither the stock
\* nor the transactions; ITEM_NOT_FOUND is returned exactly when the tenant
\* has no item with that id.
C3_OversellRefused ==
  \A s \in Slots :
    LET c == calls[s] IN
    done(c, "record_sale") =>
      /\ (owns(preItems(c), c.store, c.item_id) /\
            c.qty > preItems(c)[c.item_id].currentStock)
           => /\ c.res.code = "INSUFFICIENT_STOCK" /\ ~c.res.ok
              /\ c.res.currentStock = preItems(c)[c.item_id].currentStock
              /\ items = preItems(c)
              /\ transactions = preTransactions(c)
      /\ (c.res.code = "ITEM_NOT_FOUND") <=> ~owns(preItems(c), c.store, c.item_id)

C3_Witness ==
  \E s \in Slots :
    LET c == calls[s] IN
    /\ done(c, "record_sale") /\ c.res.code = "INSUFFICIENT_STOCK"
    /\ c.qty > preItems(c)[c.item_id].currentStock

\* the rows a store owns: its items, transactions and parties, and the
\* ledger entries of its parties
ownedRows(storeId) ==
  <<{items[i] : i \in {k \in DOMAIN items : items[k].storeId = storeId}},
    {t \in transactions : t.storeId = storeId},
    {ledgerParties[i] :
       i \in {k \in DOMAIN ledgerParties : ledgerParties[k].storeId = storeId}},
    {e \in ledgerEntries :
       \E k \in DOMAIN ledgerParties :
         k = e.partyId /\ ledgerParties[k].storeId = storeId}>>

\* C4: under any interleaving, no statement of a tool call made through
\* createTools(A) creates, changes or deletes a row owned by another store.
C4_NoWriteAcrossTenants ==
  [][\A s \in Slots : \A other \in Stores :
       (calls'[s] # calls[s] /\ other # calls'[s].store)
         => ownedRows(other)' = ownedRows(other)]_vars

\* a call that was handed a row id of another store has returned
C4_Witness ==
  \E s \in Slots :
    LET c == calls[s] IN
    /\ c.pc = "done"
    /\ c.tool \in {"adjust_stock", "add_stock", "add_item_alias", "set_min_stock"}
    /\ c.item_id \in DOMAIN items
    /\ items[c.item_id].storeId # c.store
    /\ \E t \in Slots \ {s} : calls[t].pc = "done" /\ calls[t].peer = c.cid

\* the ledger entries of the parties of a store
entriesOf(E, P, storeId) ==
  {e \in E : e.partyId \in DOMAIN P /\ P[e.partyId].storeId = storeId}

\* C5: the envelope a tool call of store A returns does not depend on the
\* rows of other stores: undo_action on a ledger entry id answers what it
\* would answer if the other stores had no ledger entries.
C5_EnvelopeIndependentOfOtherStores ==
  \A s \in Slots :
    LET c == calls[s] IN
    (done(c, "undo_action") /\ c.action_type = "ledger") =>
      LET theirs == undoLedgerEnvelope(
                      entriesOf(preEntries(c), preParties(c), c.store),
                      preParties(c), c.store, c.item_id)
      IN  /\ c.res.ok = theirs.ok
          /\ c.res.code = theirs.code
          /\ c.res.message = theirs.message

\* C6: once undo_action has returned ACTION_UNDONE for an id, every later
\* undo_action with the same action_type and id returns NOT_FOUND and
\* changes no row.
C6_UndoTwiceNotFound ==
  \A s \in Slots :
    LET c == calls[s] IN
    (done(c, "undo_action") /\ c.afterUndo) =>
      /\ c.res.code = "NOT_FOUND" /\ ~c.res.ok
      /\ db = c.pre

C6_Witness ==
  \E s \in Slots :
    /\ done(calls[s], "undo_action") /\ calls[s].afterUndo
    /\ calls[s].action_type = "transaction"

C6_WitnessLedger ==
  \E s \in Slots :
    /\ done(calls[s], "undo_action") /\ calls[s].afterUndo
    /\ calls[s].action_type = "ledger"

\* the stock effect a transaction row stands for
effectOf(t) ==
  CASE t.type = "SALE" -> 0 - t.qty
    [] t.type = "STOCK_IN" -> t.qty
    [] t.type = "ADJUST" -> t.qty

undoneTxn(c) ==
  /\ done(c, "undo_action") /\ c.action_type = "transaction"
  /\ c.res.code = "ACTION_UNDONE"

\* C7: a successful undo_action on a transaction takes exactly that
\* transaction's effect back out of its item's stock (SALE q: +q,
\* STOCK_IN q: -q, ADJUST d: -d), deletes the row, and changes no other
\* item.
C7_UndoReversesExactly ==
  \A s \in Slots :
    LET c == calls[s] IN
    undoneTxn(c) =>
      \E t \in preTransactions(c) :
        /\ t.id = c.item_id /\ t.storeId = c.store
        /\ transactions = preTransactions(c) \ {t}
        /\ items = [preItems(c) EXCEPT
                      ![t.itemId].currentStock = @ - effectOf(t)]

C7_Witness ==
  \E s \in Slots :
    /\ undoneTxn(calls[s])
    /\ \E t \in preTransactions(calls[s]) :
         t.id = calls[s].item_id /\ t.type = "SALE"

RECURSIVE entrySum(_, _)
entrySum(E, partyId) ==
  IF E = {} THEN 0
  ELSE LET e == CHOOSE x \in E : TRUE
       IN  (IF e.partyId = partyId THEN e.deltaAmount ELSE 0)
             + entrySum(E \ {e}, partyId)

\* C8: the balance add_debt, receive_payment and lookup_party report is the
\* sum of deltaAmount over the party's existing ledger entries; add_debt
\* raises it by the amount and receive_payment lowers it by the amount.
C8_BalanceIsSumOfEntries ==
  \A s \in Slots :
    LET c == calls[s] IN
    /\ (done(c, "add_debt") /\ c.res.ok) =>
         /\ c.res.newBalance = entrySum(ledgerEntries, c.res.rowId)
         /\ c.res.newBalance = entrySum(preEntries(c), c.res.rowId) + c.qty
    /\ (done(c, "receive_payment") /\ c.res.ok) =>
         /\ c.res.newBalance = entrySum(ledgerEntries, c.res.rowId)
         /\ c.res.newBalance = entrySum(preEntries(c), c.res.rowId) - c.qty
    /\ (done(c, "lookup_party") /\ c.res.ok) =>
         \A k \in DOMAIN c.res.candidates :
           c.res.candidates[k].balance =
             entrySum(ledgerEntries, c.res.candidates[k].id)

\* receive_payment of the amount that an earlier add_debt of this behaviour
\* put on the same party
C8_Witness ==
  \E s \in Slots :
    LET c == calls[s] IN
    /\ done(c, "receive_payment") /\ c.res.ok
    /\ \E e \in preEntries(c) :
         e.id > 3 /\ e.partyId = c.res.rowId /\ e.deltaAmount = c.qty

itemMatchesQuery(item, q) ==
  \/ includes(toLowerCase(item.name), q)
  \/ \E k \in DOMAIN item.aliases : includes(toLowerCase(item.aliases[k]), q)

itemEqualsQuery(item, q) ==
  \/ toLowerCase(item.name) = q
  \/ \E k \in DOMAIN item.aliases : toLowerCase(item.aliases[k]) = q

\* more than one item of the tenant matches the name, none of them exactly
ambiguousItem(tbl, storeId, name) ==
  LET q == trim(toLowerCase(name))
      cands == {i \in DOMAIN tbl :
                  tbl[i].storeId = storeId /\ itemMatchesQuery(tbl[i], q)}
  IN  Cardinality(cands) > 1 /\ \A i \in cands : ~itemEqualsQuery(tbl[i], q)

partyMatchesQuery(party, q) ==
  \/ includes(toLowerCase(party.name), q)
  \/ includes(q, toLowerCase(party.name))

\* more than one party of the tenant matches the name, none of them exactly
ambiguousParty(tbl, storeId, name) ==
  LET q == trim(toLowerCase(name))
      cands == {i \in DOMAIN tbl :
                  tbl[i].storeId = storeId /\ partyMatchesQuery(tbl[i], q)}
  IN  Cardinality(cands) > 1 /\ \A i \in cands : toLowerCase(tbl[i].name) # q

\* the call resolves by name and the name is ambiguous in the tenant
ambiguousCall(c) ==
  \/ /\ c.tool = "add_stock"
     /\ ~owns(preItems(c), c.store, c.item_id)
     /\ ambiguousItem(preItems(c), c.store, c.name)
  \/ /\ c.tool \in {"add_debt", "receive_payment"}
     /\ ambiguousParty(preParties(c), c.store, c.name)

\* C9: add_stock (resolving by name), add_debt and receive_payment, when
\* more than one candidate of the tenant matches and the best one is not an
\* exact match, return AMBIGUOUS_MATCH with the candidates and change no
\* row.
C9_AmbiguousMatchRefused ==
  \A s \in Slots :
    LET c == calls[s] IN
    (c.pc = "done" /\ ambiguousCall(c)) =>
      /\ c.res.code = "AMBIGUOUS_MATCH" /\ ~c.res.ok
      /\ Len(c.res.candidates) > 1
      /\ db = c.pre

C9_Witness ==
  \E s \in Slots :
    /\ calls[s].pc = "done" /\ ambiguousCall(calls[s])
    /\ calls[s].tool = "add_stock"

C9_WitnessParty ==
  \E s \in Slots :
    /\ calls[s].pc = "done" /\ ambiguousCall(calls[s])
    /\ calls[s].tool = "receive_payment"

\* C10: add_stock_batch never adds stock for a line whose name matches more
\* than one item of the tenant, none of them exactly.
C10_BatchObeysGate ==
  \A s \in Slots :
    LET c == calls[s] IN
    (c.tool = "add_stock_batch" /\ c.pc = "log") =>
      ~ambiguousItem(items, c.store, c.lines[c.idx].name)

-----------------------------------------------------------------------------
\* the call takes quantity out of an item's stock
removes(c) ==
  \/ c.tool \in {"record_sale", "record_sale_batch"}
  \/ c.tool = "adjust_stock" /\ c.qty < 0

\* the quantity the statement the call is about to execute asks to remove
askedQty(c) ==
  CASE c.tool = "record_sale" -> c.qty
    [] c.tool = "record_sale_batch" -> c.lines[c.idx].qty
    [] OTHER -> 0 - c.qty

\* C11: under any interleaving, a statement of record_sale, record_sale_batch
\* or a negative adjust_stock lowers an item's stock only by the quantity it
\* asks for and only when the stock at that moment is at least that
\* quantity, so the stock does not drop below zero; a negative adjust_stock
\* whose quantity exceeds the stock at its write returns INSUFFICIENT_STOCK,
\* leaves the stock unchanged and appends no transaction.
C11_RemovalsGuarded ==
  [][\A s \in Slots :
       LET c == calls[s] IN
       (calls'[s] # c /\ ~quiet(c) /\ removes(c)) =>
         /\ \A i \in DOMAIN items :
              items'[i].currentStock # items[i].currentStock =>
                /\ items[i].currentStock >= askedQty(c)
                /\ items'[i].currentStock = items[i].currentStock - askedQty(c)
                /\ items'[i].currentStock >= 0
         /\ (c.tool = "adjust_stock" /\ c.pc = "update" /\
               items[c.item_id].currentStock < 0 - c.qty)
              => /\ items' = items /\ transactions' = transactions
                 /\ calls'[s].pc = "done"
                 /\ calls'[s].res.code = "INSUFFICIENT_STOCK"
                 /\ ~calls'[s].res.ok]_vars

\* a negative adjust_stock that read enough stock lost the race against a
\* sale of the same item and was refused at its write
C11_Witness ==
  \E s, t \in Slots :
    LET c == calls[s]
        d == calls[t]
    IN  /\ done(c, "adjust_stock") /\ c.qty < 0
        /\ c.res.code = "INSUFFICIENT_STOCK"
        /\ preItems(c)[c.item_id].currentStock >= 0 - c.qty
        /\ done(d, "record_sale") /\ d.res.code = "SALE_RECORDED"
        /\ d.item_id = c.item_id

-----------------------------------------------------------------------------
stockTools ==
  {"record_sale", "record_sale_batch", "add_stock", "add_stock_batch",
   "adjust_stock"}

\* the stock of item i before the call started (0 for an item it created)
preStock(c, i) ==
  IF i \in DOMAIN preItems(c) THEN preItems(c)[i].currentStock ELSE 0

\* C12: once a call of record_sale, record_sale_batch, add_stock,
\* add_stock_batch or adjust_stock is over, also when a persistence failure
\* ended it, the change it made to each item's stock is the signed sum of
\* the transaction rows it appended, and it removed no row.
C12_StockChangeHasTransaction ==
  \A s \in Slots :
    LET c == calls[s] IN
    (c.pc = "done" /\ c.tool \in stockTools) =>
      /\ preTransactions(c) \subseteq transactions
      /\ \A i \in DOMAIN items :
           items[i].currentStock - preStock(c, i) =
             signedSum({t \in transactions \ preTransactions(c) : t.itemId = i})

-----------------------------------------------------------------------------
\* the lines of a batch sold one after the other from the table tbl: the
\* table they leave and the lines that were sold, in order
RECURSIVE sellLines(_, _, _)
sellLines(tbl, storeId, lines) ==
  IF lines = <<>> THEN [tbl |-> tbl, sold |-> <<>>]
  ELSE LET l == Head(lines)
           sells == /\ owns(tbl, storeId, l.item_id)
                    /\ tbl[l.item_id].currentStock >= l.qty
           rest == sellLines(
                     IF sells THEN [tbl EXCEPT ![l.item_id].currentStock = @ - l.qty]
                              ELSE tbl,
                     storeId, Tail(lines))
       IN  [tbl |-> rest.tbl,
            sold |-> (IF sells THEN <<l>> ELSE <<>>) \o rest.sold]

\* C13: record_sale_batch records a line (stock decremented, SALE row
\* appended) iff the item is the tenant's and has stock >= qty when the line
\* is processed, in order and whatever happened to the other lines; it
\* returns SALE_RECORDED iff at least one line was recorded, SALE_FAILED
\* otherwise, and recorded + failed is the number of lines.
C13_BatchLinesIndependent ==
  \A s \in Slots :
    LET c == calls[s] IN
    done(c, "record_sale_batch") =>
      LET e == sellLines(preItems(c), c.store, c.lines)
          appended == transactions \ preTransactions(c)
      IN  /\ items = e.tbl
          /\ preTransactions(c) \subseteq transactions
          /\ Cardinality(appended) = Len(e.sold)
          /\ \A k \in DOMAIN e.sold :
               [id |-> c.pre[3] + k, storeId |-> c.store, type |-> "SALE",
                itemId |-> e.sold[k].item_id, qty |-> e.sold[k].qty] \in appended
          /\ c.recorded = Len(e.sold)
          /\ c.recorded + c.failed = Len(c.lines)
          /\ (c.res.code = "SALE_RECORDED" /\ c.res.ok) <=> Len(e.sold) > 0
          /\ (c.res.code = "SALE_FAILED" /\ ~c.res.ok) <=> Len(e.sold) = 0
          /\ c.res.ok => c.res.recorded + c.res.failed = Len(c.lines)

\* a batch one line of which was recorded after another line had failed
C13_Witness ==
  \E s \in Slots :
    LET c == calls[s] IN
    /\ done(c, "record_sale_batch") /\ c.res.code = "SALE_RECORDED"
    /\ c.res.failed > 0
    /\ \E j, k \in DOMAIN c.lines :
         /\ j < k
         /\ ~owns(preItems(c), c.store, c.lines[j].item_id)
         /\ \E t \in transactions \ preTransactions(c) :
              t.itemId = c.lines[k].item_id

-----------------------------------------------------------------------------
\* C14: undo_action on a STOCK_IN transaction of quantity q of the tenant:
\* when the item's stock is below q it returns UNDO_FAILED and changes
\* neither the stock nor the transaction row; when the stock is at least q
\* it subtracts q and deletes the row.
C14_UndoStockInGuarded ==
  \A s \in Slots :
    LET c == calls[s] IN
    (done(c, "undo_action") /\ c.action_type = "transaction") =>
      \A t \in preTransactions(c) :
        (t.id = c.item_id /\ t.storeId = c.store /\ t.type = "STOCK_IN") =>
          IF preItems(c)[t.itemId].currentStock < t.qty
          THEN /\ c.res.code = "UNDO_FAILED" /\ ~c.res.ok
               /\ db = c.pre
               /\ t \in transactions
          ELSE /\ c.res.code = "ACTION_UNDONE" /\ c.res.ok
               /\ items = [preItems(c) EXCEPT ![t.itemId].currentStock = @ - t.qty]
               /\ transactions = preTransactions(c) \ {t}

\* the undo of a STOCK_IN was refused because the stock is below its quantity
C14_Witness ==
  \E s \in Slots :
    LET c == calls[s] IN
    /\ done(c, "undo_action") /\ c.res.code = "UNDO_FAILED"
    /\ \E t \in transactions :
         /\ t.id = c.item_id /\ t.type = "STOCK_IN"
         /\ items[t.itemId].currentStock < t.qty

\* the undo of a STOCK_IN went through after stock had come back
C14_WitnessUndone ==
  \E s \in Slots :
    LET c == calls[s] IN
    /\ done(c, "undo_action") /\ c.res.code = "ACTION_UNDONE"
    /\ \E t \in preTransactions(c) :
         /\ t.id = c.item_id /\ t.type = "STOCK_IN"
         /\ items[t.itemId].currentStock = 0

-----------------------------------------------------------------------------
\* the ledger entry with this id whose party is the tenant's
ownEntries(E, P, storeId, id) == {e \in entriesOf(E, P, storeId) : e.id = id}

\* C15: undo_action('ledger', id) deletes the entry only when the entry's
\* party belongs to the calling tenant, and then the party's balance (the
\* live sum) no longer includes the entry's delta; for an entry of another
\* tenant's party or an id that does not exist it returns NOT_FOUND and
\* deletes nothing.
C15_LedgerUndoTenantScoped ==
  \A s \in Slots :
    LET c == calls[s] IN
    (done(c, "undo_action") /\ c.action_type = "ledger") =>
      LET own == ownEntries(preEntries(c), preParties(c), c.store, c.item_id)
      IN  IF own = {}
          THEN /\ c.res.code = "NOT_FOUND" /\ ~c.res.ok
               /\ db = c.pre
          ELSE /\ c.res.code = "ACTION_UNDONE" /\ c.res.ok
               /\ ledgerEntries = preEntries(c) \ own
               /\ <<items, transactions, ledgerParties>> =
                    <<preItems(c), preTransactions(c), preParties(c)>>
               /\ \A e \in own :
                    entrySum(ledgerEntries, e.partyId) =
                      entrySum(preEntries(c), e.partyId) - e.deltaAmount

\* undo_action was handed the id of an entry of another tenant's party
C15_Witness ==
  \E s \in Slots :
    LET c == calls[s] IN
    /\ done(c, "undo_action") /\ c.action_type = "ledger"
    /\ c.res.code = "NOT_FOUND"
    /\ \E e \in ledgerEntries :
         e.id = c.item_id /\ ledgerParties[e.partyId].storeId # c.store

\* undo_action deleted an entry of the tenant
C15_WitnessUndone ==
  \E s \in Slots :
    LET c == calls[s] IN
    /\ done(c, "undo_action") /\ c.action_type = "ledger"
    /\ c.res.code = "ACTION_UNDONE"
    /\ \E e \in preEntries(c) : e.id = c.item_id /\ e.deltaAmount # 0

-----------------------------------------------------------------------------
nameIs(row, q) == toLowerCase(row.name) = q

aliasIs(row, q) == \E k \in DOMAIN row.aliases : toLowerCase(row.aliases[k]) = q

itemTier(item, q) ==
  IF nameIs(item, q) THEN 100
  ELSE IF aliasIs(item, q) THEN 90
  ELSE IF startsWith(toLowerCase(item.name), q) THEN 70
  ELSE IF \E k \in DOMAIN item.aliases :
            startsWith(toLowerCase(item.aliases[k]), q) THEN 60
  ELSE IF includes(toLowerCase(item.name), q) THEN 40
  ELSE IF \E k \in DOMAIN item.aliases :
            includes(toLowerCase(item.aliases[k]), q) THEN 30
  ELSE 0

min(a, b) == IF a < b THEN a ELSE b

\* j is ranked before k: a higher tier, or the same tier and earlier in the
\* array
before(tier, j, k) == tier[j] > tier[k] \/ (tier[j] = tier[k] /\ j < k)

\* out is the rows of positive tier, by descending tier, ties in array order,
\* cut to the limit; tier maps the position of a row in the array to its tier
isRanking(out, tier, limit) ==
  LET included == {i \in DOMAIN tier : tier[i] > 0}
      returned == {out[k].id : k \in DOMAIN out}
  IN  /\ Len(out) = min(limit, Cardinality(included))
      /\ returned \subseteq included
      /\ \A j, k \in DOMAIN out : j < k => before(tier, out[j].id, out[k].id)
      /\ \A x \in included \ returned :
           \A k \in DOMAIN out :
             tier[out[k].id] >= tier[x] /\ before(tier, out[k].id, x)

\* C17: rankItemMatches gives each item the first applicable tier of exact
\* name 100, exact alias 90, name prefix 70, alias prefix 60, name contains
\* 40, alias contains 30, else excluded, and returns the included items by
\* descending tier, ties in catalog order, cut to the limit: no returned
\* item has a lower tier than a matching item left out.
C17_ItemRankingTiers ==
  \A s \in Slots :
    LET c == calls[s] IN
    done(c, "rankItemMatches") =>
      LET q == trim(toLowerCase(c.name)) IN
      /\ isRanking(c.lines, [i \in DOMAIN items |-> itemTier(items[i], q)], c.qty)
      /\ \A k \in DOMAIN c.lines : c.lines[k] = items[c.lines[k].id]

\* a ranking that reordered the array, kept a tie, and left a match out
C17_Witness ==
  \E s \in Slots :
    LET c == calls[s]
        q == trim(toLowerCase(c.name))
        out == c.lines
    IN  /\ done(c, "rankItemMatches") /\ Len(out) = 2
        /\ Cardinality({i \in DOMAIN items : itemTier(items[i], q) > 0}) = 3
        /\ out[1].id > out[2].id
        /\ \E i \in DOMAIN items :
             /\ i \notin {out[1].id, out[2].id}
             /\ itemTier(items[i], q) = itemTier(out[2], q)

\* the tier the party ranker gives a row: the first that applies; 50 is for
\* a name that the query starts with
partyTier(party, q) ==
  LET nameLower == toLowerCase(party.name)
  IN  IF nameLower = q THEN 100
      ELSE IF startsWith(nameLower, q) THEN 70
      ELSE IF startsWith(q, nameLower) THEN 50
      ELSE IF includes(nameLower, q) THEN 40
      ELSE IF includes(q, nameLower) THEN 20
      ELSE 0

\* the tiers with 50 read as "the query is a prefix of the name"
partyTierAsStated(party, q) ==
  LET nameLower == toLowerCase(party.name)
  IN  IF nameLower = q THEN 100
      ELSE IF startsWith(nameLower, q) THEN 70
      ELSE IF startsWith(nameLower, q) THEN 50
      ELSE IF includes(nameLower, q) THEN 40
      ELSE IF includes(q, nameLower) THEN 20
      ELSE 0

\* C18 (amended): rankPartyMatches gives each party the first applicable
\* tier of exact name 100, name starts with the query 70, the query starts
\* with the name 50, name contains the query 40, the query contains the name
\* 20, else excluded, and returns the parties by descending tier, ties in
\* the original order, cut to the limit.
C18_PartyRankingTiers ==
  \A s \in Slots :
    LET c == calls[s] IN
    done(c, "rankPartyMatches") =>
      LET q == trim(toLowerCase(c.name)) IN
      /\ isRanking(c.lines,
                   [i \in DOMAIN ledgerParties |-> partyTier(ledgerParties[i], q)],
                   c.qty)
      /\ \A k \in DOMAIN c.lines : c.lines[k] = ledgerParties[c.lines[k].id]

\* C18 as stated: the same with tier 50 given to a name that the query is a
\* prefix of.
C18_PartyRankingAsStated ==
  \A s \in Slots :
    LET c == calls[s] IN
    done(c, "rankPartyMatches") =>
      LET q == trim(toLowerCase(c.name)) IN
      isRanking(c.lines,
                [i \in DOMAIN ledgerParties |->
                   partyTierAsStated(ledgerParties[i], q)],
                c.qty)

\* a party whose name the query starts with is returned above an earlier
\* party whose name contains the query, and a match is left out
C18_Witness ==
  \E s \in Slots :
    LET c == calls[s]
        q == trim(toLowerCase(c.name))
        out == c.lines
    IN  /\ done(c, "rankPartyMatches") /\ Len(out) = 2
        /\ partyTier(out[1], q) = 50 /\ partyTier(out[2], q) = 40
        /\ out[1].id > out[2].id
        /\ \E i \in DOMAIN ledgerParties : partyTier(ledgerParties[i], q) = 20

-----------------------------------------------------------------------------
\* no party of the tenant matches the name
unknownParty(c) ==
  \A i \in DOMAIN preParties(c) :
    preParties(c)[i].storeId = c.store =>
      ~partyMatchesQuery(preParties(c)[i], trim(toLowerCase(c.name)))

\* C19: receive_payment never creates a party: for a name that matches no
\* party of the tenant it returns PARTY_NOT_FOUND and changes no row;
\* add_debt for such a name creates exactly one party, with the trimmed name,
\* in the calling tenant, and appends the +amount entry to it.
C19_PaymentNeverCreatesParty ==
  \A s \in Slots :
    LET c == calls[s]
        n == Len(preParties(c)) + 1
    IN  /\ done(c, "receive_payment") =>
             /\ ledgerParties = preParties(c)
             /\ unknownParty(c) =>
                  /\ c.res.code = "PARTY_NOT_FOUND" /\ ~c.res.ok
                  /\ db = c.pre
        /\ (done(c, "add_debt") /\ unknownParty(c)) =>
             /\ c.res.code = "DEBT_ADDED" /\ c.res.ok /\ c.res.rowId = n
             /\ ledgerParties =
                  Append(preParties(c),
                         [id |-> n, storeId |-> c.store, name |-> trim(c.name)])
             /\ ledgerEntries =
                  preEntries(c) \cup
                    {[id |-> c.pre[6] + 1, partyId |-> n, deltaAmount |-> c.qty]}
             /\ <<items, transactions>> = <<preItems(c), preTransactions(c)>>

\* add_debt created a party from a name typed with a blank
C19_Witness ==
  \E s \in Slots :
    LET c == calls[s] IN
    /\ done(c, "add_debt") /\ unknownParty(c)
    /\ c.name # trim(c.name)
    /\ Len(ledgerParties) = Len(preParties(c)) + 1

\* receive_payment was refused for an unknown name
C19_WitnessPayment ==
  \E s \in Slots :
    LET c == calls[s] IN
    /\ done(c, "receive_payment") /\ unknownParty(c)
    /\ c.res.code = "PARTY_NOT_FOUND"

-----------------------------------------------------------------------------
\* C20: receive_payment for a resolved party with an amount above the
\* party's balance is not blocked: it appends the -amount entry and returns
\* PAYMENT_RECEIVED with the new, negative, balance; the response warns
\* exactly when the resulting balance is below zero.
C20_OverpaymentAccepted ==
  \A s \in Slots :
    LET c == calls[s] IN
    (/\ done(c, "receive_payment")
     /\ ~unknownParty(c)
     /\ ~ambiguousParty(preParties(c), c.store, c.name)) =>
      LET owed == entrySum(preEntries(c), c.res.rowId) IN
      /\ c.res.code = "PAYMENT_RECEIVED" /\ c.res.ok
      /\ owns(preParties(c), c.store, c.res.rowId)
      /\ ledgerEntries =
           preEntries(c) \cup
             {[id |-> c.pre[6] + 1, partyId |-> c.res.rowId,
               deltaAmount |-> 0 - c.qty]}
      /\ c.res.newBalance = owed - c.qty
      /\ c.res.warning <=> (owed - c.qty < 0)
      /\ c.qty > owed => c.res.newBalance < 0 /\ c.res.warning

\* a payment above the balance was taken
C20_Witness ==
  \E s \in Slots :
    LET c == calls[s] IN
    /\ done(c, "receive_payment") /\ c.res.code = "PAYMENT_RECEIVED"
    /\ c.qty > entrySum(preEntries(c), c.res.rowId)
    /\ c.res.newBalance < 0

\* a payment that exactly clears the balance was taken without a warning
C20_WitnessCleared ==
  \E s \in Slots :
    LET c == calls[s] IN
    /\ done(c, "receive_payment") /\ c.res.code = "PAYMENT_RECEIVED"
    /\ c.res.newBalance = 0 /\ ~c.res.warning

-----------------------------------------------------------------------------
\* an item of the tenant in the table tbl bears the name, case-folded and
\* trimmed
namedItem(tbl, storeId, name) ==
  \E i \in DOMAIN tbl :
    /\ tbl[i].storeId = storeId
    /\ toLowerCase(tbl[i].name) = trim(toLowerCase(name))

\* C21: add_item never leaves a tenant with two items of the same
\* case-folded name: a call for a name an item of the tenant bore when the
\* call started returns ITEM_EXISTS, and an item that add_item created is the
\* only item of its tenant with that case-folded name, also when another
\* add_item or a name-creating add_stock for the same name runs concurrently.
C21_AddItemNeverDuplicates ==
  \A s \in Slots :
    LET c == calls[s] IN
    done(c, "add_item") =>
      /\ namedItem(preItems(c), c.store, c.name) =>
           c.res.code = "ITEM_EXISTS" /\ ~c.res.ok
      /\ c.res.code = "ITEM_CREATED" =>
           \A j \in DOMAIN items :
             (j # c.res.rowId /\ items[j].storeId = c.store) =>
               toLowerCase(items[j].name) # toLowerCase(items[c.res.rowId].name)

-----------------------------------------------------------------------------
\* the item has two aliases that are equal but for case
twoEqualAliases(item) ==
  \E j, k \in DOMAIN item.aliases :
    j < k /\ toLowerCase(item.aliases[j]) = toLowerCase(item.aliases[k])

\* the alias equals, but for case and surrounding blanks, an alias of the item
aliasOf(item, alias) ==
  \E k \in DOMAIN item.aliases :
    toLowerCase(item.aliases[k]) = trim(toLowerCase(alias))

\* C22: add_item_alias with an alias that equals, but for case and
\* surrounding blanks, an alias already on the item returns ALIAS_EXISTS and
\* leaves the alias list as it was, so that it never makes an item's alias
\* list hold two aliases that are equal but for case.
C22_DuplicateAliasRefused ==
  \A s \in Slots :
    LET c == calls[s] IN
    (done(c, "add_item_alias") /\ owns(preItems(c), c.store, c.item_id)) =>
      /\ aliasOf(preItems(c)[c.item_id], c.name) =>
           /\ c.res.code = "ALIAS_EXISTS" /\ ~c.res.ok
           /\ items = preItems(c)
      /\ ~twoEqualAliases(preItems(c)[c.item_id]) =>
           ~twoEqualAliases(items[c.item_id])

-----------------------------------------------------------------------------
\* no item of the tenant matches the name
unknownItem(c) ==
  \A i \in DOMAIN preItems(c) :
    preItems(c)[i].storeId = c.store =>
      ~itemMatchesQuery(preItems(c)[i], trim(toLowerCase(c.name)))

\* C23: add_stock without item_id and with a name that matches no item of
\* the tenant creates exactly one item in that tenant (trimmed name, minStock
\* 5, no alias), leaves it with stock qty, appends exactly one STOCK_IN row
\* of qty and returns ITEM_CREATED_AND_STOCKED with newStock = qty; a call
\* that returns STOCK_ADDED created no item, and a name that resolves to an
\* item of the tenant returns STOCK_ADDED.
C23_AddStockCreatesOnce ==
  \A s \in Slots :
    LET c == calls[s]
        n == Len(preItems(c)) + 1
        logged(i) == [id |-> c.pre[3] + 1, storeId |-> c.store,
                      type |-> "STOCK_IN", itemId |-> i, qty |-> c.qty]
    IN
    done(c, "add_stock") =>
      /\ (c.item_id = 0 /\ unknownItem(c)) =>
           /\ c.res.code = "ITEM_CREATED_AND_STOCKED" /\ c.res.ok
           /\ c.res.newStock = c.qty /\ c.res.rowId = n
           /\ items = Append(preItems(c),
                [id |-> n, storeId |-> c.store, name |-> trim(c.name),
                 aliases |-> <<>>, currentStock |-> c.qty,
                 minStock |-> DefaultMinStock])
           /\ transactions = preTransactions(c) \cup {logged(n)}
           /\ <<ledgerParties, ledgerEntries>> = <<preParties(c), preEntries(c)>>
      /\ c.res.code = "STOCK_ADDED" =>
           /\ Len(items) = Len(preItems(c))
           /\ owns(preItems(c), c.store, c.res.rowId)
           /\ items = [preItems(c) EXCEPT ![c.res.rowId].currentStock = @ + c.qty]
           /\ transactions = preTransactions(c) \cup {logged(c.res.rowId)}
      /\ (~unknownItem(c) /\ ~ambiguousItem(preItems(c), c.store, c.name)) =>
           c.res.code = "STOCK_ADDED"

\* add_stock created an item for a name no item of the tenant matched
C23_Witness ==
  \E s \in Slots :
    LET c == calls[s] IN
    /\ done(c, "add_stock") /\ c.item_id = 0 /\ unknownItem(c)
    /\ c.res.code = "ITEM_CREATED_AND_STOCKED"
    /\ Len(items) = Len(preItems(c)) + 1

\* add_stock resolved a name that is not the item's name to the one item it
\* matches
C23_WitnessResolved ==
  \E s \in Slots :
    LET c == calls[s] IN
    /\ done(c, "add_stock") /\ c.item_id = 0 /\ c.res.code = "STOCK_ADDED"
    /\ toLowerCase(items[c.res.rowId].name) # trim(toLowerCase(c.name))

-----------------------------------------------------------------------------
\* the items of the tenant that are at or below their threshold
lowIds(storeId) ==
  {i \in DOMAIN items :
     items[i].storeId = storeId /\ items[i].currentStock <= items[i].minStock}

shortfall(row) == row.currentStock - row.minStock

\* out lists, without repetition and in ascending order of shortfall, the
\* first `limit` of the tenant's low items as the catalog has them
isLowList(out, storeId, limit) ==
  LET listed == {out[k].id : k \in DOMAIN out} IN
  /\ listed \subseteq lowIds(storeId)
  /\ Len(out) = min(limit, Cardinality(lowIds(storeId)))
  /\ \A j, k \in DOMAIN out :
       j < k => out[j].id # out[k].id /\ shortfall(out[j]) <= shortfall(out[k])
  /\ \A k \in DOMAIN out :
       /\ out[k].currentStock = items[out[k].id].currentStock
       /\ out[k].minStock = items[out[k].id].minStock
       /\ out[k].name = items[out[k].id].name
  /\ \A i \in lowIds(storeId) \ listed :
       \A k \in DOMAIN out : shortfall(out[k]) <= shortfall(items[i])

C24_WitnessNone ==
  \E s \in Slots :
    LET c == calls[s] IN
    /\ done(c, "check_low_stock") /\ c.res.code = "NO_LOW_STOCK"
    /\ \E i \in DOMAIN items : items[i].storeId = c.store

-----------------------------------------------------------------------------
\* C25: every suggestion of suggest_reorder is for an item with
\* currentStock <= minStock and minStock >= 0, and its suggestedQty is the
\* larger of 2*minStock - currentStock and minStock, so that
\* currentStock + suggestedQty >= 2*minStock and suggestedQty >= minStock,
\* also for a negative currentStock.
C25_SuggestedQtyRefills ==
  \A s \in Slots :
    LET c == calls[s] IN
    done(c, "suggest_reorder") =>
      /\ isLowList(c.lines, c.store, c.qty)
      /\ \A k \in DOMAIN c.lines :
           LET cur == c.lines[k].currentStock
               mn == c.lines[k].minStock
               q == c.lines[k].suggestedQty
           IN  /\ cur <= mn /\ mn >= 0
               /\ q \in {2 * mn - cur, mn}
               /\ q >= 2 * mn - cur /\ q >= mn
               /\ cur + q >= 2 * mn

\* a suggestion for an item in negative stock, and one for an item whose
\* threshold is 0
C25_Witness ==
  \E s \in Slots :
    LET c == calls[s] IN
    /\ done(c, "suggest_reorder") /\ Len(c.lines) = 2
    /\ c.lines[1].currentStock < 0 /\ c.lines[1].suggestedQty > c.lines[1].minStock
    /\ c.lines[2].minStock = 0 /\ c.lines[2].suggestedQty = 0

-----------------------------------------------------------------------------
RECURSIVE entrySumIf(_, _)
\* the sum of the positive deltas of E, or of the negative ones as a positive
\* number
entrySumIf(E, positive) ==
  IF E = {} THEN 0
  ELSE LET e == CHOOSE x \in E : TRUE
           v == IF positive
                THEN (IF e.deltaAmount > 0 THEN e.deltaAmount ELSE 0)
                ELSE (IF e.deltaAmount < 0 THEN 0 - e.deltaAmount ELSE 0)
       IN  v + entrySumIf(E \ {e}, positive)

\* the day that a clock set +05:30 ahead of UTC shows at the instant ts
localDay(ts) == (ts + IstOffsetMs) \div DayMs

\* the day that a UTC clock shows at the instant ts
utcDay(ts) == ts \div DayMs

\* the tenant's transactions of the type on the local day
txnsOn(storeId, date, type) ==
  {t \in transactions :
     t.storeId = storeId /\ t.type = type /\ localDay(t.ts) = date}

\* the entries of the tenant's parties on the local day
entriesOn(storeId, date) ==
  {e \in ledgerEntries :
     /\ \E i \in DOMAIN ledgerParties :
          ledgerParties[i].id = e.partyId /\ ledgerParties[i].storeId = storeId
     /\ localDay(e.ts) = date}

\* C29: get_daily_summary for date D counts exactly the calling tenant's
\* transactions, and the ledger entries of the tenant's parties, whose
\* instant falls on day D of a clock set +05:30 ahead of UTC: sales count and
\* quantity, stock-in count, adjustment count, new udhar (sum of the positive
\* deltas) and payments received (sum of the negative deltas, as a positive
\* number) are taken over those rows and no other.
C29_SummaryOverLocalDay ==
  \A s \in Slots :
    LET c == calls[s]
        sum == c.row
        day == entriesOn(c.store, c.item_id)
    IN
    done(c, "get_daily_summary") =>
      /\ c.res.code = "SUMMARY_GENERATED" /\ c.res.ok
      /\ sum.date = c.item_id
      /\ sum.salesCount = Cardinality(txnsOn(c.store, c.item_id, "SALE"))
      /\ sum.salesTotalQty = sumQty(txnsOn(c.store, c.item_id, "SALE"))
      /\ sum.stockInsCount = Cardinality(txnsOn(c.store, c.item_id, "STOCK_IN"))
      /\ sum.adjustmentsCount = Cardinality(txnsOn(c.store, c.item_id, "ADJUST"))
      /\ sum.newUdhar = entrySumIf(day, TRUE)
      /\ sum.paymentsReceived = entrySumIf(day, FALSE)

\* the summary counted a sale made before midnight UTC of the day before and
\* left out one made on the UTC day but after local midnight, and another
\* tenant's sale of the same day
C29_Witness ==
  \E s \in Slots :
    LET c == calls[s] IN
    /\ done(c, "get_daily_summary") /\ c.row.salesCount = 1
    /\ \E t \in txnsOn(c.store, c.item_id, "SALE") : utcDay(t.ts) # c.item_id
    /\ \E t \in transactions :
         /\ t.storeId = c.store /\ t.type = "SALE"
         /\ utcDay(t.ts) = c.item_id /\ localDay(t.ts) # c.item_id

\* a payment of the day was summed as received, another tenant's entry of the
\* day was not
C29_WitnessLedger ==
  \E s \in Slots :
    LET c == calls[s] IN
    /\ done(c, "get_daily_summary") /\ c.row.paymentsReceived = 1
    /\ c.row.newUdhar = 0
    /\ \E e \in ledgerEntries :
         e.deltaAmount > 0 /\ localDay(e.ts) = c.item_id

-----------------------------------------------------------------------------
\* C30: whatever the order or interleaving of the getOrCreateStore calls, a
\* chat has at most one store, no call fails, and a call returns the id of
\* the store of its own chat (so that two chats never get the same store).
C30_StoreCreatedOnce ==
  /\ \A i, j \in DOMAIN stores :
       i # j => stores[i].telegramChatId # stores[j].telegramChatId
  /\ \A s \in Slots :
       LET c == calls[s] IN
       done(c, "getOrCreateStore") =>
         /\ c.res.ok
         /\ c.res.rowId \in DOMAIN stores
         /\ stores[c.res.rowId].telegramChatId = c.item_id

-----------------------------------------------------------------------------
\* the phase changes a turn may make
PhaseChanges ==
  {<<"Idle", "Planning">>, <<"Planning", "ToolCall">>, <<"ToolCall", "Planning">>,
   <<"Planning", "Responding">>, <<"ToolCall", "Responding">>,
   <<"Responding", "Idle">>,
   <<"Idle", "Caught">>, <<"Planning", "Caught">>, <<"ToolCall", "Caught">>,
   <<"Caught", "Idle">>}

-----------------------------------------------------------------------------
\* C27: the reply of runAgent is never the empty text: when the last planner
\* step, be it the one at the step cap, gave no text the reply is "Done.",
\* and otherwise it is that text.
C27_ReplyNeverEmpty ==
  /\ \A k \in DOMAIN session.replies : session.replies[k] # ""
  /\ (session.phase = "Idle" /\ session.steps > 0 /\ ~session.thrown) =>
       session.replies =
         <<IF session.text = "" THEN "Done." ELSE session.text>>

\* the step cap was reached with no final text and the reply was "Done."
C27_Witness ==
  /\ session.phase = "Idle" /\ session.steps = MaxSteps
  /\ session.toolRounds = MaxSteps /\ session.text = ""
  /\ session.replies = <<"Done.">>

\* the planner ended by itself with no text and the reply was "Done."
C27_WitnessNormalEnd ==
  /\ session.phase = "Idle" /\ session.steps = 1 /\ session.toolRounds = 0
  /\ session.text = "" /\ session.replies = <<"Done.">>

-----------------------------------------------------------------------------
\* C28: when the store resolution or runAgent throws, the message handler
\* returns after sending the apology as the one reply to that message, and
\* the turn is not retried: no planner step and no tool statement follows the
\* fault in that turn.
C28_FaultBecomesOneApology ==
  /\ [](session.thrown =>
          /\ session.phase \in {"Caught", "Idle"}
          /\ session.phase = "Caught" => session.replies = <<>>
          /\ session.phase = "Idle" => session.replies = <<Apology>>)
  /\ [][(session.thrown /\ session'.turns = session.turns) =>
          /\ session'.thrown /\ session'.steps = session.steps
          /\ <<db, calls>>' = <<db, calls>>
          /\ session'.phase = "Idle"]_vars

\* runAgent threw after a tool call of the turn had changed the stock, and
\* the apology was the reply
C28_Witness ==
  /\ session.phase = "Idle" /\ session.thrown /\ session.toolRounds >= 1
  /\ session.replies = <<Apology>>
  /\ \E i \in DOMAIN items : items[i].currentStock = 0

\* the store resolution threw and the apology was the reply
C28_WitnessResolution ==
  /\ session.phase = "Idle" /\ session.thrown /\ session.steps = 0
  /\ session.replies = <<Apology>>

-----------------------------------------------------------------------------
(* C31 *)

\* the call was given a quantity that is not an integer
fractional(c) ==
  c.frac \/ \E k \in DOMAIN c.lines : "frac" \in DOMAIN c.lines[k] /\ c.lines[k].frac

\* C31: every quantity a stock-mutating tool accepts and applies is an
\* integer, and every item's currentStock and every transaction's qty are
\* integers
C31_QuantitiesAreIntegers ==
  /\ \A s \in Slots :
       LET c == calls[s] IN
       c.tool \in StockTools /\ c.res.code # "INVALID_TOOL_INPUT" => ~fractional(c)
  /\ \A i \in DOMAIN items : items[i].currentStock \in Int
  /\ \A t \in transactions : t.qty \in Int

-----------------------------------------------------------------------------
(* C32 *)

\* both turns called undo_action for the same transaction of their store, a
\* transaction that was there, and reversible, when the first of them began
sameUndoTwice ==
  LET a == calls[1]
      b == calls[2]
      txn == findTxn(a.pre[2], a.item_id, a.store)
  IN  /\ done(a, "undo_action") /\ done(b, "undo_action")
      /\ a.action_type = "transaction" /\ b.action_type = "transaction"
      /\ a.item_id = b.item_id /\ a.store = b.store
      /\ txn # NoRow /\ undoGuard(a.pre[1], txn)

\* C32: of two concurrent undo_action calls for the same transaction id,
\* exactly one returns ACTION_UNDONE and the other NOT_FOUND, and afterwards
\* every item's stock is the signed sum of its remaining transactions
C32_ConcurrentUndoReversesOnce ==
  sameUndoTwice =>
    /\ Cardinality({s \in Slots : calls[s].res.code = "ACTION_UNDONE"}) = 1
    /\ Cardinality({s \in Slots : calls[s].res.code = "NOT_FOUND"}) = 1
    /\ \A i \in DOMAIN items : stockMatchesLog(i)

-----------------------------------------------------------------------------
(* C33 *)

\* C33: after any sequence of completed tool calls (sales, stock-ins,
\* adjustments and undos of them) every item's currentStock is >= 0
C33_StockNeverNegative ==
  (\A s \in Slots : quiet(calls[s])) =>
    \A i \in DOMAIN items : items[i].currentStock >= 0

-----------------------------------------------------------------------------
(* C34 *)

MutatingTools ==
  {"record_sale", "record_sale_batch", "add_stock", "adjust_stock", "add_debt",
   "receive_payment", "add_item", "add_item_alias", "set_min_stock",
   "undo_action"}

\* C34: turns running one after the other: a call of a mutating tool that
\* returned ok:false has left every item, transaction, ledger party and
\* ledger entry as they were when it began
C34_FailureChangesNothing ==
  \A s \in Slots :
    LET c == calls[s] IN
    (c.pc = "done" /\ c.tool \in MutatingTools /\ ~c.res.ok) =>
      /\ items = c.pre[1] /\ transactions = c.pre[2]
      /\ ledgerParties = c.pre[4] /\ ledgerEntries = c.pre[5]

\* a batch of two lines failed on both
C34_Witness ==
  \E s \in Slots :
    /\ done(calls[s], "record_sale_batch") /\ calls[s].res.code = "SALE_FAILED"
    /\ Len(calls[s].lines) = 2

\* the guarded reversal of a STOCK_IN matched no row
C34_WitnessUndo ==
  \E s \in Slots :
    done(calls[s], "undo_action") /\ calls[s].res.code = "UNDO_FAILED"

\* a negative adjustment larger than the stock
C34_WitnessAdjust ==
  \E s \in Slots :
    done(calls[s], "adjust_stock") /\ calls[s].res.code = "INSUFFICIENT_STOCK"

-----------------------------------------------------------------------------
(* C35 *)

\* C35: the newStock that add_stock reports is the item's stored
\* currentStock as the call's own increment left it, whatever other calls
\* on the item ran meanwhile
C35_AddStockReportsStoredStock ==
  \A s \in Slots :
    LET c == calls[s] IN
    (done(c, "add_stock") /\ c.res.ok) =>
      c.res.newStock = c.row2.currentStock

-----------------------------------------------------------------------------
(* C36 *)

\* C36: in every reachable state every transaction's item is an item of the
\* transaction's store and every ledger entry's party exists; hence the item
\* that undo_action is about to reverse is an item of the caller's store
C36_RowsReferenceOwnTenant ==
  /\ \A t \in transactions :
       t.itemId \in DOMAIN items /\ items[t.itemId].storeId = t.storeId
  /\ \A e \in ledgerEntries : e.partyId \in DOMAIN ledgerParties
  /\ \A s \in Slots :
       LET c == calls[s] IN
       (c.tool = "undo_action" /\ c.pc = "reverse") =>
         items[c.row.itemId].storeId = c.store

\* an undo is about to reverse a transaction that a call of the other turn
\* wrote
C36_Witness ==
  \E s \in Slots :
    /\ calls[s].tool = "undo_action" /\ calls[s].pc = "reverse"
    /\ calls[s].row.id > 5

\* transactions and ledger entries written by calls on items and parties
\* that calls created
C36_WitnessCreated ==
  /\ \E t \in transactions : t.itemId > 3
  /\ \E e \in ledgerEntries : e.partyId > 3

-----------------------------------------------------------------------------
(* C39 *)

\* the alias is in the item's stored alias list
hasAlias(item, alias) == \E k \in DOMAIN item.aliases : item.aliases[k] = alias

\* C39: once all calls have finished, every add_item_alias call that
\* returned ALIAS_ADDED has its alias in the item's stored alias list, also
\* when the calls ran concurrently on the same item with distinct aliases
C39_NoAliasLost ==
  (\A s \in Slots : quiet(calls[s])) =>
    \A s \in Slots :
      LET c == calls[s] IN
      (done(c, "add_item_alias") /\ c.res.code = "ALIAS_ADDED") =>
        hasAlias(items[c.item_id], trim(c.name))

-----------------------------------------------------------------------------
(* C38 *)

\* the listing shows the action under its label (T<id> or L<id>)
listed(l, action_type, id) ==
  IF action_type = "transaction"
  THEN \E k \in DOMAIN l.row.transactions : l.row.transactions[k] = id
  ELSE \E k \in DOMAIN l.row.ledgerEntries : l.row.ledgerEntries[k] = id

\* C38: every action that list_recent_actions lists is a transaction of the
\* calling store or a ledger entry of one of its parties, and a later
\* undo_action of that store for a listed action that has not been undone in
\* between never returns NOT_FOUND
C38_ListedCanBeUndone ==
  LET l == calls[2]
      c == calls[1]
  IN  done(l, "list_recent_actions") =>
        /\ \A k \in DOMAIN l.row.transactions :
             \E t \in l.pre[2] :
               t.id = l.row.transactions[k] /\ t.storeId = l.store
        /\ \A k \in DOMAIN l.row.ledgerEntries :
             \E e \in l.pre[5] :
               /\ e.id = l.row.ledgerEntries[k]
               /\ findParty(l.pre[4], e.partyId, l.store) # NoRow
        /\ ( /\ done(c, "undo_action") /\ c.cid > l.cid /\ c.store = l.store
             /\ ~c.afterUndo /\ listed(l, c.action_type, c.item_id) )
             => c.res.code # "NOT_FOUND"

\* a listed transaction was undone by the next call
C38_Witness ==
  /\ done(calls[2], "list_recent_actions")
  /\ done(calls[1], "undo_action") /\ calls[1].cid = calls[2].cid + 1
  /\ calls[1].store = calls[2].store /\ calls[1].action_type = "transaction"
  /\ listed(calls[2], "transaction", calls[1].item_id)
  /\ calls[1].res.code = "ACTION_UNDONE"

\* a listed ledger entry was undone after another call in between
C38_WitnessLedger ==
  /\ done(calls[2], "list_recent_actions")
  /\ done(calls[1], "undo_action") /\ calls[1].cid = calls[2].cid + 2
  /\ calls[1].store = calls[2].store /\ calls[1].action_type = "ledger"
  /\ listed(calls[2], "ledger", calls[1].item_id)
  /\ calls[1].res.code = "ACTION_UNDONE"

-----------------------------------------------------------------------------
(* C37 *)

\* C37 as stated: whatever the sequence of deliveries, a (chatId, messageId)
\* triggers at most one processMessage invocation, and the processed-key set
\* never holds more than MAX_PROCESSED keys
C37_AtMostOneInvocation ==
  /\ \A key \in Keys : deliveries.invoked[key] <= 1
  /\ Len(processedUpdates) <= MAX_PROCESSED

\* C37, amended: while a key is among the MAX_PROCESSED keys the guard let
\* through last, a delivery of it starts neither a transcription nor a
\* processMessage invocation (the only invocation is that of the voice
\* delivery that was let through, when its transcription arrives), also when
\* that first delivery is still running or has failed; and the processed-key
\* set never holds more than MAX_PROCESSED keys between deliveries
C37_NoRepeatWhileRemembered ==
  /\ [](Len(processedUpdates) <= MAX_PROCESSED)
  /\ [][\A key \in Keys :
          has(deliveries.recent, key) =>
            /\ deliveries'.invoked[key] > deliveries.invoked[key]
                 => deliveries.phase[key] = "transcribing"
            /\ deliveries'.phase[key] = "transcribing"
                 => deliveries.phase[key] = "transcribing"]_vars

\* a message whose processing is still running was delivered again and dropped
C37_Witness ==
  /\ deliveries.dropped
  /\ deliveries.phase[deliveries.last] = "running"
  /\ deliveries.invoked[deliveries.last] = 1

\* a message whose processing failed was delivered again and dropped
C37_WitnessFailed ==
  /\ deliveries.dropped
  /\ deliveries.phase[deliveries.last] = "failed"

\* the set is full
C37_WitnessFull == Len(processedUpdates) = MAX_PROCESSED

====
